---- MODULE Spec2Model ----
(***************************************************************************)
(* A model of pm-copilot: the PII scrubber (pii-scrubber.ts), the feedback *)
(* analyzer (feedback-analyzer.ts) and the fetch pipeline of index.ts.     *)
(*                                                                         *)
(* Text is a sequence of one-character strings.  A regular expression is   *)
(* modelled by the ordered sequence of end positions its backtracking      *)
(* search visits from a start position (first = the path the engine tries  *)
(* first); the match taken is the head of that sequence.  Positions are    *)
(* "index of the next character to read", 1..Len(text)+1.                  *)
(***************************************************************************)
EXTENDS Integers, Sequences, FiniteSets, TLC

VARIABLES
  scrubIn,        \* scrubPii: the input text
  scrubOut,       \* scrubPii: the ScrubResult of the first pass (or NoResult)
  scrubOut2,      \* scrubPii: the ScrubResult of a pass over scrubOut.text
  matchText,      \* matchesTheme: the text argument
  matchKeywords,  \* matchesTheme: the keywords argument
  matchResult,    \* matchesTheme: the value returned (or NoResult)
  conversations,  \* analyzeFeedback: the FormattedConversation list
  featureRequests,\* analyzeFeedback: the FormattedFeatureRequest list
  config,         \* analyzeFeedback: the ThemesConfig
  analysis,       \* analyzeFeedback: the AnalysisResult (or NoResult)
  frequencyCounts,\* analyzeFeedback: the matched points of each theme, counted
  frequencyScores,\* analyzeFeedback: the frequency_score of each theme
  piiCategoriesLog, \* index.ts: the Set the module variable refers to
  piiSets,        \* index.ts: the contents of every Set of PII categories
  calls,          \* index.ts: the tool calls, each with its locals
  scrubResults,   \* index.ts: what scrubPii returns for each fetched text
  votePoints,     \* computeVoteMomentum: the matched points of each theme
  voteScores,     \* analyzeFeedback: the vote_momentum_score of each theme
  severityPoints, \* computeSeverityScore: its points argument
  clock,          \* Date.now(): the current time, in whole days
  severityScores, \* computeSeverityScore: each invocation, its now and its result
  emergingPoints, \* detectEmergingThemes: the points no theme matched
  emergingMin,    \* detectEmergingThemes: its minFrequency argument
  emergingThemes, \* detectEmergingThemes: the EmergingThemes returned
  priorityArgs,   \* analyzeFeedback: the points of one theme, and the highest
                  \* count and raw vote momentum among the other themes
  priorityTheme,  \* analyzeFeedback: the ThemeMatch pushed for that theme
  rawThemes,      \* analyzeFeedback: config.themes as JSON.parse returned it
  rawTexts,       \* analyzeFeedback: the texts of the data points
  rawOutcome,     \* analyzeFeedback: whether the matching loops returned or threw
  hsNow,          \* HelpScoutClient: what Date.now() returns, in ms
  requestTimestamps, \* HelpScoutClient.requestTimestamps
  httpLog,        \* the times at which the client sent a request to the API
  getters,        \* the apiGet calls in progress, by their place in the batch
  fetchRun,       \* fetchConversations: its options, the pages the API
                  \* holds and its position
  tooMany,        \* how many more times the API answers 429
  fetchCache,     \* index.ts fetchCache, the entries by key
  cacheNow,       \* index.ts, what Date.now() returns, in ms
  planCalls,      \* the calls of synthesize_feedback and generate_product_plan
  fetchLog        \* the invocations of fetchAndAnalyze, by call and time

scrubVars == <<scrubIn, scrubOut, scrubOut2>>

matchVars == <<matchText, matchKeywords, matchResult>>

analyzeVars == <<conversations, featureRequests, config, analysis>>

scoreVars == <<frequencyCounts, frequencyScores>>

serverVars == <<piiCategoriesLog, piiSets, calls, scrubResults>>

\* the state of the scoring functions when they are studied on their own
voteVars == <<votePoints, voteScores>>

severityVars == <<severityPoints, clock, severityScores>>

emergingVars == <<emergingPoints, emergingMin, emergingThemes>>

priorityVars == <<priorityArgs, priorityTheme>>

rawVars == <<rawThemes, rawTexts, rawOutcome>>

clientVars == <<hsNow, requestTimestamps, httpLog, getters, fetchRun, tooMany>>

planVars == <<fetchCache, cacheNow, planCalls, fetchLog>>

componentVars == <<voteVars, severityVars, emergingVars, priorityVars,
                   rawVars,
                   clientVars,
                   planVars>>

\* the state of analyzeFeedback and of the server
programVars == <<scrubVars, matchVars, analyzeVars, scoreVars, serverVars>>

vars == <<scrubIn, scrubOut, scrubOut2, matchText, matchKeywords, matchResult,
          conversations, featureRequests, config, analysis,
          frequencyCounts, frequencyScores, piiCategoriesLog, piiSets, calls,
          scrubResults,
          votePoints, voteScores,
          severityPoints, clock, severityScores,
          emergingPoints, emergingMin, emergingThemes,
          priorityArgs, priorityTheme,
          rawThemes, rawTexts, rawOutcome,
          hsNow, requestTimestamps, httpLog, getters, fetchRun, tooMany,
          fetchCache, cacheNow, planCalls, fetchLog>>

NoResult == [none |-> TRUE]

\* ------------------------------------------------------------------------
\* Characters
\* ------------------------------------------------------------------------

Digits == <<"0", "1", "2", "3", "4", "5", "6", "7", "8", "9">>

LowerSeq == <<"a", "b", "c", "d", "e", "f", "g", "h", "i", "j", "k", "l", "m",
              "n", "o", "p", "q", "r", "s", "t", "u", "v", "w", "x", "y", "z">>

UpperSeq == <<"A", "B", "C", "D", "E", "F", "G", "H", "I", "J", "K", "L", "M",
              "N", "O", "P", "Q", "R", "S", "T", "U", "V", "W", "X", "Y", "Z">>

Range(s) == {s[i] : i \in DOMAIN s}

DigitSet == Range(Digits)

LetterSet == Range(LowerSeq) \cup Range(UpperSeq)

\* \d
IsDigit(c) == c \in DigitSet

\* \w
IsWordChar(c) == c \in DigitSet \cup LetterSet \cup {"_"}

\* \s (the white space the inputs use)
WhiteSpace == {" ", "\t", "\n"}

\* [-\s]
DashOrSpace == {"-"} \cup WhiteSpace

IsDashOrSpace(c) == c \in DashOrSpace

\* [-.\s]
PhoneSep == {"-", "."} \cup WhiteSpace

\* [A-Za-z0-9._%+\-]
EmailLocal == DigitSet \cup LetterSet \cup {".", "_", "%", "+", "-"}

\* [A-Za-z0-9.\-]
EmailDomain == DigitSet \cup LetterSet \cup {".", "-"}

\* parseInt(c, 10) of one decimal digit
DigitValue(c) == (CHOOSE i \in DOMAIN Digits : Digits[i] = c) - 1

\* String.prototype.toLowerCase, one character
LowerChar(c) ==
  IF c \in Range(UpperSeq)
  THEN LowerSeq[CHOOSE i \in DOMAIN UpperSeq : UpperSeq[i] = c]
  ELSE c

\* String.prototype.toLowerCase
toLowerCase(s) == [i \in DOMAIN s |-> LowerChar(s[i])]

\* ------------------------------------------------------------------------
\* Regular-expression pieces: each maps a sequence of candidate positions
\* (in the engine's priority order) to the sequence of positions reached.
\* ------------------------------------------------------------------------

RECURSIVE FlatMap(_, _)
\* concatenation of f[p] over the positions p of ps, in order
FlatMap(f, ps) ==
  IF ps = <<>> THEN <<>> ELSE f[Head(ps)] \o FlatMap(f, Tail(ps))

Positions(t) == 1..(Len(t) + 1)

\* \b at position p: exactly one side is a word character
AtWordBoundary(t, p) ==
  LET before == p > 1 /\ IsWordChar(t[p - 1])
      after  == p <= Len(t) /\ IsWordChar(t[p])
  IN before # after

\* \b
Boundary(t, ps) == SelectSeq(ps, LAMBDA p : AtWordBoundary(t, p))

\* \d{n} starting at p
DigitsAt(t, p, n) ==
  p + n - 1 <= Len(t) /\ \A k \in p..(p + n - 1) : IsDigit(t[k])

\* \d{n}
DigitRun(t, ps, n) ==
  FlatMap([p \in Positions(t) |-> IF DigitsAt(t, p, n) THEN <<p + n>> ELSE <<>>], ps)

\* one character of the class cls (a set of characters)
OneOf(t, ps, cls) ==
  FlatMap([p \in Positions(t) |->
             IF p <= Len(t) /\ t[p] \in cls THEN <<p + 1>> ELSE <<>>], ps)

\* x? for a character class: greedy, so "take it" is tried before "skip it"
OptOf(t, ps, cls) ==
  FlatMap([p \in Positions(t) |->
             IF p <= Len(t) /\ t[p] \in cls THEN <<p + 1, p>> ELSE <<p>>], ps)

\* a literal character
Lit(t, ps, c) == OneOf(t, ps, {c})

\* a literal character, optional
OptLit(t, ps, c) == OptOf(t, ps, {c})

\* the length of the longest run of cls characters starting at p
RunLength(t, p, cls) ==
  CHOOSE n \in 0..(Len(t) + 1 - p) :
    /\ \A k \in p..(p + n - 1) : t[k] \in cls
    /\ (p + n > Len(t) \/ t[p + n] \notin cls)

\* the positions p+hi, p+hi-1, .., p+lo, in that order
Descending(p, hi, lo) == [k \in 1..(hi - lo + 1) |-> p + hi + 1 - k]

\* cls{lo,hi} greedy: longest first (hi = -1 for no upper limit)
RepeatOf(t, ps, cls, lo, hi) ==
  FlatMap([p \in Positions(t) |->
             LET n == RunLength(t, p, cls)
                 m == IF hi >= 0 /\ n > hi THEN hi ELSE n
             IN  IF m < lo THEN <<>> ELSE Descending(p, m, lo)], ps)

\* ------------------------------------------------------------------------
\* pii-scrubber.ts
\* ------------------------------------------------------------------------

\* the value formatConversation gives to customerEmail
Chars_REDACTED == <<"[", "R", "E", "D", "A", "C", "T", "E", "D", "]">>

Chars_SSN == <<"[", "S", "S", "N", " ", "R", "E", "D", "A", "C", "T", "E", "D", "]">>

Chars_CC == <<"[", "C", "C", " ", "R", "E", "D", "A", "C", "T", "E", "D", "]">>

Chars_EMAIL == <<"[", "E", "M", "A", "I", "L", " ",
                 "R", "E", "D", "A", "C", "T", "E", "D", "]">>

Chars_PHONE == <<"[", "P", "H", "O", "N", "E", " ",
                 "R", "E", "D", "A", "C", "T", "E", "D", "]">>

\* the four detectors, in the order scrubPii applies them
PII_PATTERNS ==
  << [name |-> "ssn",         replacement |-> Chars_SSN],
     [name |-> "credit_card", replacement |-> Chars_CC],
     [name |-> "email",       replacement |-> Chars_EMAIL],
     [name |-> "phone",       replacement |-> Chars_PHONE] >>

\* /\b\d{3}[-\s]\d{2}[-\s]\d{4}\b/ tried at position i
SsnEnds(t, i) ==
  Boundary(t,
    DigitRun(t,
      OneOf(t,
        DigitRun(t,
          OneOf(t,
            DigitRun(t, Boundary(t, <<i>>), 3),
            DashOrSpace),
          2),
        DashOrSpace),
      4))

\* \d{4}[-\s]?
CardGroup(t, ps) == OptOf(t, DigitRun(t, ps, 4), DashOrSpace)

\* (?:\d{4}[-\s]?){2,4}, greedy: a further group is tried before stopping
CardGroups(t, ps) ==
  LET afterTwo == CardGroup(t, CardGroup(t, ps))
      third == [p \in Positions(t) |->
                  FlatMap([q \in Positions(t) |-> CardGroup(t, <<q>>) \o <<q>>],
                          CardGroup(t, <<p>>))
                  \o <<p>>]
  IN FlatMap(third, afterTwo)

\* /\b(?:\d{4}[-\s]?){2,4}\d{1,4}\b/ tried at position i
CardEnds(t, i) ==
  Boundary(t, RepeatOf(t, CardGroups(t, Boundary(t, <<i>>)), DigitSet, 1, 4))

\* /\b[A-Za-z0-9._%+\-]+@[A-Za-z0-9.\-]+\.[A-Za-z]{2,}\b/ tried at position i
EmailEnds(t, i) ==
  Boundary(t,
    RepeatOf(t,
      Lit(t,
        RepeatOf(t,
          Lit(t,
            RepeatOf(t, Boundary(t, <<i>>), EmailLocal, 1, -1),
            "@"),
          EmailDomain, 1, -1),
        "."),
      LetterSet, 2, -1))

\* (?:\+?1[-.\s]?)?, greedy: the prefix is tried before skipping it
PhonePrefix(t, ps) ==
  FlatMap([p \in Positions(t) |->
             OptOf(t, Lit(t, OptLit(t, <<p>>, "+"), "1"), PhoneSep) \o <<p>>], ps)

\* /(?:\+?1[-.\s]?)?\(?\d{3}\)?[-.\s]?\d{3}[-.\s]?\d{4}\b/ tried at position i
PhoneEnds(t, i) ==
  Boundary(t,
    DigitRun(t,
      OptOf(t,
        DigitRun(t,
          OptOf(t,
            OptLit(t,
              DigitRun(t, OptLit(t, PhonePrefix(t, <<i>>), "("), 3),
              ")"),
            PhoneSep),
          3),
        PhoneSep),
      4))

\* the end of the match of pattern `name` starting at i, 0 when there is none
MatchEnd(name, t, i) ==
  LET ends == CASE name = "ssn" -> SsnEnds(t, i)
                [] name = "credit_card" -> CardEnds(t, i)
                [] name = "email" -> EmailEnds(t, i)
                [] name = "phone" -> PhoneEnds(t, i)
  IN IF ends = <<>> THEN 0 ELSE Head(ends)

RECURSIVE MatchesFrom(_, _, _)
\* a global regex scan: the leftmost match, then on from its end
MatchesFrom(name, t, i) ==
  IF i > Len(t) THEN <<>>
  ELSE LET e == MatchEnd(name, t, i)
       IN IF e = 0 THEN MatchesFrom(name, t, i + 1)
          ELSE <<[from |-> i, to |-> e]>> \o MatchesFrom(name, t, e)

\* the spans (from inclusive, to exclusive) String.replace visits, in order
Matches(name, t) == MatchesFrom(name, t, 1)

Slice(t, from, to) == SubSeq(t, from, to - 1)

\* match.replace(/\D/g, "")
DigitsOnly(s) == SelectSeq(s, IsDigit)

RECURSIVE LuhnSum(_, _, _)
\* the loop of passesLuhn from index i down to 1
LuhnSum(digits, i, alternate) ==
  IF i < 1 THEN 0
  ELSE LET n == DigitValue(digits[i])
           d == IF alternate THEN (IF 2 * n > 9 THEN 2 * n - 9 ELSE 2 * n) ELSE n
       IN d + LuhnSum(digits, i - 1, ~alternate)

passesLuhn(digits) == LuhnSum(digits, Len(digits), FALSE) % 10 = 0

\* the post-filter with the Luhn test dropped
CardFilter_NoLuhn(match) ==
  LET digitsOnly == DigitsOnly(match)
  IN Len(digitsOnly) >= 13 /\ Len(digitsOnly) <= 19

\* the post-filter of the credit_card callback
CardFilter(match) ==
  LET digitsOnly == DigitsOnly(match)
  IN Len(digitsOnly) >= 13 /\ Len(digitsOnly) <= 19 /\ passesLuhn(digitsOnly)

\* whether the span m of t is replaced by pattern `name`
Replaces(name, t, m) ==
  IF name = "credit_card" THEN CardFilter(Slice(t, m.from, m.to)) ELSE TRUE

RECURSIVE ReplaceSpans(_, _, _, _, _)
\* t from position i on, every span of ms replaced (or kept, for a card
\* candidate the filter rejects)
ReplaceSpans(name, t, ms, replacement, i) ==
  IF ms = <<>> THEN Slice(t, i, Len(t) + 1)
  ELSE LET m == Head(ms)
       IN Slice(t, i, m.from)
          \o (IF Replaces(name, t, m) THEN replacement ELSE Slice(t, m.from, m.to))
          \o ReplaceSpans(name, t, Tail(ms), replacement, m.to)

\* one iteration of the loop of scrubPii
ScrubPass(pat, t) ==
  LET ms == Matches(pat.name, t)
      scrubbed == ReplaceSpans(pat.name, t, ms, pat.replacement, 1)
  IN [text |-> scrubbed,
      found |-> IF pat.name = "credit_card"
                THEN \E k \in DOMAIN ms : Replaces(pat.name, t, ms[k])
                ELSE scrubbed # t]

RECURSIVE ScrubFrom(_, _, _)
ScrubFrom(k, scrubbed, categoriesFound) ==
  IF k > Len(PII_PATTERNS)
  THEN [text |-> scrubbed, piiCategoriesFound |-> categoriesFound]
  ELSE LET r == ScrubPass(PII_PATTERNS[k], scrubbed)
       IN ScrubFrom(k + 1, r.text,
                    IF r.found THEN categoriesFound \cup {PII_PATTERNS[k].name}
                    ELSE categoriesFound)

\* scrubPii: the ScrubResult; piiCategoriesFound as the set of its entries
scrubPii(text) == ScrubFrom(1, text, {})

\* ------------------------------------------------------------------------
\* The scrubber applied to texts built from a few pieces
\* ------------------------------------------------------------------------

MaxPieces == 3

Pieces ==
  { <<"1", "2", "3", "-", "4", "5", "-", "6", "7", "8", "9">>,
    <<"5", "5", "5", "1", "2", "3", "4", "5", "6", "7">>,
    <<"4", "2", "2", "2", "2", "2", "2", "2", "2", "2", "2", "2", "2">>,
    <<"4", "2", "2", "2", "2", "2", "2", "2", "2", "2", "2", "2", "3">>,
    <<"1", "2", "3", "4">>,
    <<"a", "@", "b", ".", "c", "o">>,
    <<" ">>,
    <<"x">> }

RECURSIVE Concat(_)
Concat(ss) == IF ss = <<>> THEN <<>> ELSE Head(ss) \o Concat(Tail(ss))

Texts == UNION {{Concat(ps) : ps \in [1..n -> Pieces]} : n \in 0..MaxPieces}

\* scrubPii is given a text of Texts; nothing else runs
ScrubInit ==
  /\ scrubIn \in Texts
  /\ scrubOut = NoResult
  /\ scrubOut2 = NoResult
  /\ matchText = <<>>
  /\ matchKeywords = <<>>
  /\ matchResult = NoResult
  /\ conversations = <<>>
  /\ featureRequests = <<>>
  /\ config = NoResult
  /\ analysis = NoResult
  /\ frequencyCounts = <<>>
  /\ frequencyScores = NoResult
  /\ piiCategoriesLog = 0
  /\ piiSets = <<>>
  /\ calls = <<>>
  /\ scrubResults = <<>>
  /\ votePoints = <<>>
  /\ voteScores = NoResult
  /\ severityPoints = <<>>
  /\ clock = 0
  /\ severityScores = <<>>
  /\ emergingPoints = <<>>
  /\ emergingMin = 0
  /\ emergingThemes = NoResult
  /\ priorityArgs = NoResult
  /\ priorityTheme = NoResult
  /\ rawThemes = NoResult
  /\ rawTexts = <<>>
  /\ rawOutcome = NoResult
  /\ hsNow = 0
  /\ requestTimestamps = <<>>
  /\ httpLog = <<>>
  /\ getters = <<>>
  /\ fetchRun = NoResult
  /\ tooMany = 0
  /\ fetchCache = <<>>
  /\ cacheNow = 0
  /\ planCalls = <<>>
  /\ fetchLog = <<>>

\* scrubPii(text)
Scrub ==
  /\ scrubOut = NoResult
  /\ scrubOut' = scrubPii(scrubIn)
  /\ UNCHANGED <<scrubIn, scrubOut2, matchVars, analyzeVars, scoreVars, serverVars, componentVars>>

\* scrubPii(scrubPii(text).text)
Rescrub ==
  /\ scrubOut # NoResult
  /\ scrubOut2 = NoResult
  /\ scrubOut2' = scrubPii(scrubOut.text)
  /\ UNCHANGED <<scrubIn, scrubOut, matchVars, analyzeVars, scoreVars, serverVars, componentVars>>

ScrubNext == Scrub \/ Rescrub

\* ------------------------------------------------------------------------
\* Properties of scrubPii
\* ------------------------------------------------------------------------

\* whether piece occurs in t at position i
OccursAt(piece, t, i) ==
  i + Len(piece) - 1 <= Len(t) /\ SubSeq(t, i, i + Len(piece) - 1) = piece

\* the positions at which piece occurs in t
Occurrences(piece, t) == {i \in 1..Len(t) : OccursAt(piece, t, i)}

\* t[i..j] is digits, hyphens and white space only, starts and ends with a
\* digit, holds 13 to 19 digits and passes the Luhn checksum
IsLuhnSpan(t, i, j) ==
  /\ IsDigit(t[i]) /\ IsDigit(t[j])
  /\ \A k \in i..j : IsDigit(t[k]) \/ IsDashOrSpace(t[k])
  /\ LET d == DigitsOnly(SubSeq(t, i, j))
     IN Len(d) >= 13 /\ Len(d) <= 19 /\ passesLuhn(d)

\* the positions where a Luhn-valid span of t starts
LuhnSpanStarts(t) ==
  {i \in 1..Len(t) : \E j \in (i + 12)..Len(t) : IsLuhnSpan(t, i, j)}

\* t[i..j] is a card number as the spec writes one: 13 to 19 digits,
\* contiguous or in clusters of 4 (the last of 1 to 4) separated by one
\* hyphen or space, between word boundaries, passing Luhn
IsCardNumber(t, i, j) ==
  /\ IsLuhnSpan(t, i, j)
  /\ AtWordBoundary(t, i) /\ AtWordBoundary(t, j + 1)
  /\ \/ \A k \in i..j : IsDigit(t[k])
     \/ \A k \in i..j : IsDigit(t[k]) <=> (k - i) % 5 # 4

ContainsCardNumber(t) ==
  \E i \in 1..Len(t) : \E j \in (i + 12)..Len(t) : IsCardNumber(t, i, j)

\* C1: scrubPii is idempotent: a second pass over the scrubbed text returns
\* it unchanged.
C1_Idempotent ==
  scrubOut2 # NoResult => scrubOut2.text = scrubOut.text

\* C5: the credit-card placeholder appears in the output at most once per
\* place of the input where a Luhn-valid span of 13 to 19 digits starts (so
\* never for a span failing Luhn), and credit_card is reported exactly when
\* the placeholder was inserted.
C5_LuhnGate ==
  scrubOut # NoResult =>
    /\ Cardinality(Occurrences(Chars_CC, scrubOut.text))
         <= Cardinality(LuhnSpanStarts(scrubIn))
    /\ ("credit_card" \in scrubOut.piiCategoriesFound)
         <=> (Occurrences(Chars_CC, scrubOut.text) # {})

\* a Luhn-valid card and a 13-digit run failing Luhn, one redacted as a
\* card, the other not
C5_Witness ==
  /\ scrubIn = <<"4", "2", "2", "2", "2", "2", "2", "2", "2", "2", "2", "2", "2", " ",
                 "4", "2", "2", "2", "2", "2", "2", "2", "2", "2", "2", "2", "3">>
  /\ scrubOut # NoResult
  /\ "credit_card" \in scrubOut.piiCategoriesFound
  /\ Cardinality(Occurrences(Chars_CC, scrubOut.text)) = 1

\* C6: a text containing a Luhn-valid card number between word boundaries
\* comes out with the credit-card placeholder and the credit_card category,
\* whatever surrounds the number.
C6_ValidCardReplaced ==
  (scrubOut # NoResult /\ ContainsCardNumber(scrubIn)) =>
    /\ "credit_card" \in scrubOut.piiCategoriesFound
    /\ Occurrences(Chars_CC, scrubOut.text) # {}

\* ------------------------------------------------------------------------
\* feedback-analyzer.ts: theme matching
\* ------------------------------------------------------------------------

\* kw.includes(" ")
HasSpace(kw) == \E i \in DOMAIN kw : kw[i] = " "

\* text.includes(sub)
Includes(text, sub) ==
  sub = <<>> \/ \E i \in 1..Len(text) : OccursAt(sub, text, i)

\* the literal kw read at position i of text under the "i" flag
OccursAtIgnoreCase(kw, text, i) ==
  /\ i + Len(kw) - 1 <= Len(text)
  /\ \A k \in DOMAIN kw : LowerChar(text[i + k - 1]) = LowerChar(kw[k])

\* new RegExp(`\\b${escapeRegex(kw)}\\b`, "i").test(text): escapeRegex makes
\* every character of kw a literal, so the pattern is \b, kw, \b
WordRegexTest(kw, text) ==
  \E i \in Positions(text) :
    /\ AtWordBoundary(text, i)
    /\ OccursAtIgnoreCase(kw, text, i)
    /\ AtWordBoundary(text, i + Len(kw))

\* one iteration of the loop of matchesTheme
KeywordMatches(text, kw) ==
  IF HasSpace(kw) THEN Includes(text, toLowerCase(kw)) ELSE WordRegexTest(kw, text)

\* matchesTheme: true at the first keyword that matches
matchesTheme(text, keywords) ==
  \E k \in DOMAIN keywords : KeywordMatches(text, keywords[k])

\* ------------------------------------------------------------------------
\* matchesTheme applied to lower-cased texts built from a few pieces
\* ------------------------------------------------------------------------

MaxWords == 3

MaxKeywords == 2

Words ==
  { <<"a", "p", "i">>,
    <<"r", "a", "p", "i", "d">>,
    <<"l", "o", "g", " ", "i", "n">>,
    <<"c", "+", "+">>,
    <<" ">>,
    <<"x">> }

Keywords ==
  { <<"a", "p", "i">>,
    <<"A", "P", "I">>,
    <<"L", "o", "g", " ", "i", "n">>,
    <<"c", "+", "+">> }

\* DataPoint.text is always the result of toLowerCase
MatchTexts == UNION {{Concat(ws) : ws \in [1..n -> Words]} : n \in 0..MaxWords}

KeywordLists == UNION {[1..n -> Keywords] : n \in 0..MaxKeywords}

\* matchesTheme is given a text and a keyword list; nothing else runs
MatchInit ==
  /\ matchText \in MatchTexts
  /\ matchKeywords \in KeywordLists
  /\ matchResult = NoResult
  /\ scrubIn = <<>>
  /\ scrubOut = NoResult
  /\ scrubOut2 = NoResult
  /\ conversations = <<>>
  /\ featureRequests = <<>>
  /\ config = NoResult
  /\ analysis = NoResult
  /\ frequencyCounts = <<>>
  /\ frequencyScores = NoResult
  /\ piiCategoriesLog = 0
  /\ piiSets = <<>>
  /\ calls = <<>>
  /\ scrubResults = <<>>
  /\ votePoints = <<>>
  /\ voteScores = NoResult
  /\ severityPoints = <<>>
  /\ clock = 0
  /\ severityScores = <<>>
  /\ emergingPoints = <<>>
  /\ emergingMin = 0
  /\ emergingThemes = NoResult
  /\ priorityArgs = NoResult
  /\ priorityTheme = NoResult
  /\ rawThemes = NoResult
  /\ rawTexts = <<>>
  /\ rawOutcome = NoResult
  /\ hsNow = 0
  /\ requestTimestamps = <<>>
  /\ httpLog = <<>>
  /\ getters = <<>>
  /\ fetchRun = NoResult
  /\ tooMany = 0
  /\ fetchCache = <<>>
  /\ cacheNow = 0
  /\ planCalls = <<>>
  /\ fetchLog = <<>>

\* matchesTheme(text, keywords)
Match ==
  /\ matchResult = NoResult
  /\ matchResult' = [value |-> matchesTheme(matchText, matchKeywords)]
  /\ UNCHANGED <<matchText, matchKeywords, scrubVars, analyzeVars, scoreVars, serverVars, componentVars>>

MatchNext == Match

\* ------------------------------------------------------------------------
\* Properties of matchesTheme
\* ------------------------------------------------------------------------

\* kw occurs in text, compared case-insensitively
OccursAsSubstring(kw, text) ==
  \E i \in 1..Len(text) : OccursAtIgnoreCase(kw, text, i)

\* kw occurs in text as a whole word: the characters next to the occurrence,
\* if any, are not word characters
OccursAsWholeWord(kw, text) ==
  \E i \in 1..Len(text) :
    /\ OccursAtIgnoreCase(kw, text, i)
    /\ (i = 1 \/ ~IsWordChar(text[i - 1]))
    /\ (i + Len(kw) > Len(text) \/ ~IsWordChar(text[i + Len(kw)]))

\* C7: a theme matches a text iff one of its keywords does: a keyword with a
\* space as a case-insensitive substring, a single-token keyword as a
\* case-insensitive whole word.
C7_MatchRule ==
  matchResult # NoResult =>
    (matchResult.value <=>
       \E k \in DOMAIN matchKeywords :
         IF HasSpace(matchKeywords[k])
         THEN OccursAsSubstring(matchKeywords[k], matchText)
         ELSE OccursAsWholeWord(matchKeywords[k], matchText))

\* ------------------------------------------------------------------------
\* feedback-analyzer: data points and theme matching
\*
\* A FormattedConversation is a record with the fields id, subject, preview,
\* customerMessages, tags, threadCount, createdAt and customerEmail; a
\* FormattedFeatureRequest one with id, title, description, votes_count,
\* comments_count, portal, created_at and comments.  Texts are sequences of
\* characters, dates are day numbers, and a number with two decimals is the
\* integer of its hundredths.
\* ------------------------------------------------------------------------

\* Array.prototype.join
RECURSIVE join(_, _)
join(parts, sep) ==
  IF parts = <<>> THEN <<>>
  ELSE IF Len(parts) = 1 THEN parts[1]
  ELSE parts[1] \o sep \o join(Tail(parts), sep)

conversationToDataPoint(conv) ==
  LET textParts == <<conv.subject, conv.preview>> \o conv.customerMessages
  IN [id |-> <<"hs-", conv.id>>,
      source |-> "REACTIVE",
      title |-> conv.subject,
      text |-> toLowerCase(join(textParts, <<" ">>)),
      created_at |-> conv.createdAt,
      metadata |-> [tags |-> conv.tags, thread_count |-> conv.threadCount]]

featureRequestToDataPoint(req) ==
  LET textParts == <<req.title, req.description>>
                     \o [i \in DOMAIN req.comments |-> req.comments[i].comment]
  IN [id |-> <<"pl-", req.id>>,
      source |-> "PROACTIVE",
      title |-> req.title,
      text |-> toLowerCase(join(textParts, <<" ">>)),
      created_at |-> req.created_at,
      metadata |-> [votes |-> req.votes_count,
                    comments_count |-> req.comments_count,
                    portal |-> req.portal]]

\* the dataPoints of analyzeFeedback: conversations first, then feature requests
DataPointsOf(convs, reqs) ==
  [i \in DOMAIN convs |-> conversationToDataPoint(convs[i])]
    \o [i \in DOMAIN reqs |-> featureRequestToDataPoint(reqs[i])]

\* the inner loop of the matching if it stopped at the first theme that matches
RECURSIVE PushThemes_FirstOnly(_, _, _, _)
PushThemes_FirstOnly(tm, dp, themes, j) ==
  IF j > Len(themes) THEN tm
  ELSE IF matchesTheme(dp.text, themes[j].keywords)
       THEN [tm EXCEPT ![themes[j].id] = Append(@, dp)]
       ELSE PushThemes_FirstOnly(tm, dp, themes, j + 1)

\* the inner loop of the matching, from theme j on: dp is pushed onto the list
\* of every theme whose keywords match it
RECURSIVE PushThemes(_, _, _, _)
PushThemes(tm, dp, themes, j) ==
  IF j > Len(themes) THEN tm
  ELSE PushThemes(IF matchesTheme(dp.text, themes[j].keywords)
                  THEN [tm EXCEPT ![themes[j].id] = Append(@, dp)]
                  ELSE tm,
                  dp, themes, j + 1)

\* the outer loop of the matching, from data point k on
RECURSIVE PushPoints(_, _, _, _)
PushPoints(tm, dps, themes, k) ==
  IF k > Len(dps) THEN tm
  ELSE PushPoints(PushThemes(tm, dps[k], themes, 1), dps, themes, k + 1)

\* the Map themeMatches after the matching: theme id -> matched data points
themeMatches(dps, themes) ==
  PushPoints([id \in {themes[j].id : j \in DOMAIN themes} |-> <<>>],
             dps, themes, 1)

\* the Set matchedIds after the matching
matchedIds(dps, themes) ==
  {dps[k].id : k \in {n \in DOMAIN dps :
                        \E j \in DOMAIN themes :
                          matchesTheme(dps[n].text, themes[j].keywords)}}

\* frequencyCounts as pushed by the loop over config.themes
CountPoints(tm, themes) == [i \in DOMAIN themes |-> Len(tm[themes[i].id])]

Max(S) == CHOOSE m \in S : \A n \in S : n <= m

\* the sum of a list of numbers
RECURSIVE Sum(_)
Sum(counts) == IF counts = <<>> THEN 0 ELSE Head(counts) + Sum(Tail(counts))

\* maxFrequency if it were the total of the counts
maxFrequency_Total(counts) == Max({Sum(counts), 1})

\* Math.max(...frequencyCounts, 1)
maxFrequency(counts) == Max(Range(counts) \cup {1})

\* (frequencyCounts[i] / maxFrequency) * 100, as an exact fraction
frequencyScore(count, maxFreq) == [num |-> count * 100, den |-> maxFreq]

\* Math.round(n * 100) / 100 of a non-negative fraction, in hundredths: the
\* whole part, the two decimals and the half that rounds up
round2(n) ==
  LET rest == 100 * (n.num % n.den)
  IN 100 * (n.num \div n.den) + rest \div n.den
       + (IF 2 * (rest % n.den) >= n.den THEN 1 ELSE 0)

\* a theme is returned although nothing matched it
HasPoints_Always(points) == TRUE

\* the test that keeps a theme: not (points.length === 0)
HasPoints(points) == Len(points) # 0

\* points.filter((p) => p.source === source).length if the source were not
\* compared
CountSource_All(points, source) == Len(points)

CountSource(points, source) ==
  Cardinality({i \in DOMAIN points : points[i].source = source})

\* computeVoteMomentum: totalVotes * 0.8 + totalComments * 0.2 over the
\* proactive points, as an exact number of tenths; 0 without proactive points
computeVoteMomentum(points) ==
  LET proactive == SelectSeq(points, LAMBDA p : p.source = "PROACTIVE")
      totalVotes == Sum([i \in DOMAIN proactive |-> proactive[i].metadata.votes])
      totalComments ==
        Sum([i \in DOMAIN proactive |-> proactive[i].metadata.comments_count])
  IN [num |-> IF Len(proactive) = 0 THEN 0
              ELSE 8 * totalVotes + 2 * totalComments,
      den |-> 10]

\* the raw vote momentum of every theme, in the order of config.themes
rawVoteMomentums(pointLists) ==
  [i \in DOMAIN pointLists |-> computeVoteMomentum(pointLists[i])]

\* Math.max(...rawVoteMomentums, 1), in tenths
maxVoteMomentum(raws) ==
  [num |-> Max({raws[i].num : i \in DOMAIN raws} \cup {10}), den |-> 10]

\* (rawVoteMomentums[i] / maxVoteMomentum) * 100, as an exact fraction
voteMomentumScore(raw, maxVotes) == [num |-> raw.num * 100, den |-> maxVotes.num]

\* SEVERITY_TAG_BOOST, by tag
SEVERITY_TAG_BOOST ==
  (<<"b", "u", "g">> :> 20)
    @@ (<<"u", "r", "g", "e", "n", "t">> :> 25)
    @@ (<<"e", "s", "c", "a", "l", "a", "t", "i", "o", "n">> :> 30)
    @@ (<<"e", "s", "c", "a", "l", "a", "t", "e", "d">> :> 30)
    @@ (<<"c", "r", "i", "t", "i", "c", "a", "l">> :> 25)

\* the tag boost loop of computeSeverityScore, from tag k on: the boost of the
\* first tag that has one in SEVERITY_TAG_BOOST, after which the loop breaks
\* (tags are ordinary words: none names a property every object inherits)
RECURSIVE tagBoost(_, _)
tagBoost(tags, k) ==
  IF k > Len(tags) THEN 0
  ELSE LET tag == toLowerCase(tags[k])
       IN IF tag \in DOMAIN SEVERITY_TAG_BOOST /\ SEVERITY_TAG_BOOST[tag] # 0
          THEN SEVERITY_TAG_BOOST[tag]
          ELSE tagBoost(tags, k + 1)

\* the days on which the clock is read
ClockDays == <<10, 17>>

FirstDay == ClockDays[1]

LastDay == ClockDays[Len(ClockDays)]

\* 30 * Math.exp(-ageDays / 7), in hundredths to the nearest hundredth, for
\* the ages the sample points have; under half a hundredth from 63 days on
RecencyTable == (-7 :> 8155) @@ (0 :> 3000) @@ (7 :> 1104) @@ (14 :> 406)

recencyBoost(ageDays) == IF ageDays >= 63 THEN 0 ELSE RecencyTable[ageDays]

Min(a, b) == IF a < b THEN a ELSE b

\* the pointScore of one reactive point at time now, in hundredths
pointScore(p, now) ==
  LET threads == p.metadata.thread_count
      ageDays == now - p.created_at
  IN 100 * Min(threads * 10, 50) + recencyBoost(ageDays)
       + 100 * tagBoost(p.metadata.tags, 1)

\* computeSeverityScore if proactive points counted in the mean
computeSeverityScore_AllPoints(points, now) ==
  LET reactive == SelectSeq(points, LAMBDA p : p.source = "REACTIVE")
  IN IF Len(points) = 0 THEN [num |-> 0, den |-> 1]
     ELSE LET totalScore == Sum([i \in DOMAIN reactive |-> pointScore(reactive[i], now)])
          IN [num |-> Min(totalScore, 100 * 100 * Len(points)),
              den |-> 100 * Len(points)]

\* computeSeverityScore: Math.min(totalScore / reactive.length, 100) as an
\* exact fraction, 0 without reactive points; now is what Date.now() returned
computeSeverityScore(points, now) ==
  LET reactive == SelectSeq(points, LAMBDA p : p.source = "REACTIVE")
  IN IF Len(reactive) = 0 THEN [num |-> 0, den |-> 1]
     ELSE LET totalScore == Sum([i \in DOMAIN reactive |-> pointScore(reactive[i], now)])
          IN [num |-> Min(totalScore, 100 * 100 * Len(reactive)),
              den |-> 100 * Len(reactive)]

\* text.replace(/[^a-z0-9\s]/g, " ")
replaceNonWords(text) ==
  [i \in DOMAIN text |->
     IF text[i] \in Range(LowerSeq) \cup DigitSet \cup WhiteSpace
     THEN text[i] ELSE " "]

\* String.prototype.split(/\s+/), from character i on with the piece begun so
\* far: the pieces between the runs of white space, an empty piece where the
\* text begins or ends with white space
RECURSIVE splitWhiteSpace(_, _, _)
splitWhiteSpace(text, i, piece) ==
  IF i > Len(text) THEN <<piece>>
  ELSE IF text[i] \in WhiteSpace
       THEN IF i > 1 /\ text[i - 1] \in WhiteSpace
            THEN splitWhiteSpace(text, i + 1, piece)
            ELSE <<piece>> \o splitWhiteSpace(text, i + 1, <<>>)
       ELSE splitWhiteSpace(text, i + 1, Append(piece, text[i]))

tokenize(text, stopWords) ==
  SelectSeq(splitWhiteSpace(replaceNonWords(text), 1, <<>>),
            LAMBDA w : Len(w) > 2 /\ w \notin stopWords)

\* extractNgrams: the bigrams, then the trigrams
extractNgrams(tokens) ==
  [i \in 1..(Len(tokens) - 1) |-> join(<<tokens[i], tokens[i + 1]>>, <<" ">>)]
    \o [i \in 1..(Len(tokens) - 2) |->
          join(<<tokens[i], tokens[i + 1], tokens[i + 2]>>, <<" ">>)]

\* ngramToPoints is kept as the list of its entries in insertion order, each
\* an n-gram with the set of the (1-based) positions of the points that
\* contain it; this adds point i to the entry of ng
addNgram(map, ng, i) ==
  IF \E k \in DOMAIN map : map[k].ngram = ng
  THEN [k \in DOMAIN map |->
          IF map[k].ngram = ng THEN [map[k] EXCEPT !.points = @ \cup {i}]
          ELSE map[k]]
  ELSE Append(map, [ngram |-> ng, points |-> {i}])

\* the loop over the n-grams of point i, from n-gram j on
RECURSIVE addNgrams(_, _, _, _)
addNgrams(map, ngrams, j, i) ==
  IF j > Len(ngrams) THEN map
  ELSE addNgrams(addNgram(map, ngrams[j], i), ngrams, j + 1, i)

\* the loop over the unmatched points, from point i on
RECURSIVE ngramToPoints(_, _, _, _)
ngramToPoints(map, points, stopWords, i) ==
  IF i > Len(points) THEN map
  ELSE ngramToPoints(
         addNgrams(map, extractNgrams(tokenize(points[i].text, stopWords)), 1, i),
         points, stopWords, i + 1)

\* entries.sort((a, b) => b[1].size - a[1].size): a stable sort
RECURSIVE sortBySize(_)
sortBySize(entries) ==
  IF entries = <<>> THEN <<>>
  ELSE LET front == sortBySize(SubSeq(entries, 1, Len(entries) - 1))
           last == entries[Len(entries)]
           keep == Cardinality({i \in DOMAIN front :
                                  Cardinality(front[i].points)
                                    >= Cardinality(last.points)})
       IN SubSeq(front, 1, keep) \o <<last>> \o SubSeq(front, keep + 1, Len(front))

\* the entries with at least minFrequency points, by descending size
sortedNgrams(points, stopWords, minFrequency) ==
  sortBySize(SelectSeq(ngramToPoints(<<>>, points, stopWords, 1),
                       LAMBDA e : Cardinality(e.points) >= minFrequency))

\* the elements of a set of positions in ascending order, the order in which
\* they were added to the Set
RECURSIVE Ascending(_)
Ascending(S) ==
  IF S = {} THEN <<>>
  ELSE LET m == CHOOSE x \in S : \A y \in S : x <= y
       IN <<m>> \o Ascending(S \ {m})

\* the EmergingTheme pushed for an n-gram and its unclaimed points
EmergingThemeOf(ngram, unclaimed, points) ==
  [ngram |-> ngram,
   frequency |-> Cardinality(unclaimed),
   data_points |-> [k \in DOMAIN Ascending(unclaimed) |->
                      LET p == points[Ascending(unclaimed)[k]]
                      IN [id |-> p.id, source |-> p.source, title |-> p.title]]]

\* the claim loop if it never marked a point as claimed
RECURSIVE claimLoop_NoClaim(_, _, _, _, _)
claimLoop_NoClaim(sorted, k, state, points, minFrequency) ==
  IF k > Len(sorted) THEN state
  ELSE LET unclaimed == sorted[k].points \ state.claimed
       IN claimLoop_NoClaim(sorted, k + 1,
            IF Cardinality(unclaimed) < minFrequency THEN state
            ELSE [claimed |-> state.claimed,
                  emerging |-> Append(state.emerging,
                                      EmergingThemeOf(sorted[k].ngram, unclaimed,
                                                      points))],
            points, minFrequency)

\* the greedy claim loop, from entry k of sorted on; state holds claimed and
\* emerging
RECURSIVE claimLoop(_, _, _, _, _)
claimLoop(sorted, k, state, points, minFrequency) ==
  IF k > Len(sorted) THEN state
  ELSE LET unclaimed == sorted[k].points \ state.claimed
       IN claimLoop(sorted, k + 1,
            IF Cardinality(unclaimed) < minFrequency THEN state
            ELSE [claimed |-> state.claimed \cup unclaimed,
                  emerging |-> Append(state.emerging,
                                      EmergingThemeOf(sorted[k].ngram, unclaimed,
                                                      points))],
            points, minFrequency)

detectEmergingThemes(unmatchedPoints, stopWords, minFrequency) ==
  claimLoop(sortedNgrams(unmatchedPoints, stopWords, minFrequency), 1,
            [claimed |-> {}, emerging |-> <<>>],
            unmatchedPoints, minFrequency).emerging

RECURSIVE GCD(_, _)
GCD(a, b) == IF b = 0 THEN a ELSE GCD(b, a % b)

\* a fraction in lowest terms
Reduce(n) ==
  LET g == GCD(n.num, n.den)
  IN [num |-> n.num \div g, den |-> n.den \div g]

\* weight * n + m for fractions n and m, weight in hundredths
AddWeighted(weight, n, m) ==
  LET r == Reduce(n)
  IN Reduce([num |-> weight * r.num * m.den + m.num * r.den,
             den |-> r.den * m.den])

\* convergent ? 2 : 1 if convergence tripled the score
convergenceBoost_Triple(convergent) == IF convergent THEN 3 ELSE 1

\* convergent ? 2 : 1 if convergence did not count
convergenceBoost_None(convergent) == 1

\* convergent ? 2 : 1
convergenceBoost(convergent) == IF convergent THEN 2 ELSE 1

\* (frequencyScore * 0.35 + severityScore * 0.35 + voteMomentumScore * 0.3)
\* * convergenceBoost, as an exact fraction
priorityScore(f, s, v, boost) ==
  LET weighted == AddWeighted(30, v, AddWeighted(35, s, AddWeighted(35, f,
                    [num |-> 0, den |-> 1])))
  IN Reduce([num |-> weighted.num * boost, den |-> weighted.den * 100])

\* the ThemeMatch pushed for theme i; now is what Date.now() returns
ThemeMatchOf(theme, points, count, maxFreq, raw, maxVotes, now) ==
  LET reactiveCount == CountSource(points, "REACTIVE")
      proactiveCount == CountSource(points, "PROACTIVE")
      convergent == reactiveCount > 0 /\ proactiveCount > 0
      f == frequencyScore(count, maxFreq)
      sev == computeSeverityScore(points, now)
      v == voteMomentumScore(raw, maxVotes)
  IN [theme_id |-> theme.id,
      label |-> theme.label,
      category |-> theme.category,
      reactive_count |-> reactiveCount,
      proactive_count |-> proactiveCount,
      convergent |-> convergent,
      frequency_score |-> round2(f),
      severity_score |-> round2(sev),
      vote_momentum_score |-> round2(v),
      priority_score |-> round2(priorityScore(f, sev, v,
                                              convergenceBoost(convergent))),
      data_points |-> [i \in DOMAIN points |->
                         [id |-> points[i].id,
                          source |-> points[i].source,
                          title |-> points[i].title]]]

\* the loop that builds the ThemeMatch results, from theme i on
RECURSIVE BuildThemes(_, _, _, _, _, _)
BuildThemes(themes, tm, counts, raws, now, i) ==
  IF i > Len(themes) THEN <<>>
  ELSE (IF HasPoints(tm[themes[i].id])
        THEN <<ThemeMatchOf(themes[i], tm[themes[i].id], counts[i],
                            maxFrequency(counts), raws[i],
                            maxVoteMomentum(raws), now)>>
        ELSE <<>>)
       \o BuildThemes(themes, tm, counts, raws, now, i + 1)

\* themes.sort if it left the list as it was built
sortByPriority_Unsorted(themes) == themes

\* themes.sort((a, b) => b.priority_score - a.priority_score): a stable sort,
\* here by inserting each theme after those that do not score less
RECURSIVE sortByPriority(_)
sortByPriority(themes) ==
  IF themes = <<>> THEN <<>>
  ELSE LET front == sortByPriority(SubSeq(themes, 1, Len(themes) - 1))
           last == themes[Len(themes)]
           keep == Cardinality({i \in DOMAIN front :
                                  front[i].priority_score >= last.priority_score})
       IN SubSeq(front, 1, keep) \o <<last>> \o SubSeq(front, keep + 1, Len(front))

\* analyzeFeedback: the counts, the matched themes with their scores in
\* order of priority, the emerging themes and the number of data points no
\* theme matched; now is what Date.now() returns during the call
analyzeFeedback(convs, reqs, cfg, now) ==
  LET dataPoints == DataPointsOf(convs, reqs)
      tm == themeMatches(dataPoints, cfg.themes)
      counts == CountPoints(tm, cfg.themes)
      raws == rawVoteMomentums([i \in DOMAIN cfg.themes |-> tm[cfg.themes[i].id]])
      matched == matchedIds(dataPoints, cfg.themes)
      unmatchedPoints == SelectSeq(dataPoints, LAMBDA dp : dp.id \notin matched)
  IN [config_version |-> cfg.version,
      known_themes_count |-> Len(cfg.themes),
      total_data_points |-> Len(dataPoints),
      reactive_count |-> Len(convs),
      proactive_count |-> Len(reqs),
      themes |-> sortByPriority(BuildThemes(cfg.themes, tm, counts, raws, now, 1)),
      emerging_themes |->
        detectEmergingThemes(unmatchedPoints, Range(cfg.stop_words),
                             cfg.emerging_theme_min_frequency),
      unmatched_count |-> Len(unmatchedPoints)]

\* ------------------------------------------------------------------------
\* analyzeFeedback applied to a few conversations, feature requests and
\* theme configurations
\* ------------------------------------------------------------------------

MaxConvs == 2

MaxReqs == 2

\* a conversation as formatConversation returns it when no thread was
\* fetched: the preview, if not empty, is the only customer message
FormattedSample(id, subject, preview, tags, createdAt) ==
  [id |-> id, subject |-> subject, preview |-> preview,
   customerMessages |-> IF preview = <<>> THEN <<>> ELSE <<preview>>,
   tags |-> tags, threadCount |-> 0, createdAt |-> createdAt,
   customerEmail |-> Chars_REDACTED]

ConvSamples ==
  { FormattedSample("1", <<"a", "p", "i">>, <<"x">>, <<<<"b", "u", "g">>>>, 10),
    FormattedSample("2", <<"x">>, <<"b", "i", "l", "l", "i", "n", "g", " ", "a", "p", "i">>, <<>>, 3),
    FormattedSample("3", <<"s", "s", "o">>, <<>>, <<>>, 10) }

RequestSample(id, title, description, votes, comments) ==
  [id |-> id, title |-> title, description |-> description,
   votes_count |-> votes, comments_count |-> comments, portal |-> "all",
   created_at |-> 5, comments |-> <<>>]

ReqSamples ==
  { RequestSample("p1", <<"A", "P", "I">>, <<"x">>, 3, 1),
    RequestSample("p2", <<"b", "i", "l", "l", "i", "n", "g">>, <<>>, 0, 0) }

ThemeSample(id, keywords) ==
  [id |-> id, label |-> id, category |-> "general", keywords |-> keywords]

ConfigSample(themes) ==
  [version |-> 1, themes |-> themes, stop_words |-> <<>>,
   emerging_theme_min_frequency |-> 2]

\* theme ids are unique within a configuration
ConfigSamples ==
  { ConfigSample(<<ThemeSample("api", <<<<"a", "p", "i">>>>),
                   ThemeSample("billing", <<<<"i", "n", "v", "o", "i", "c", "e">>, <<"b", "i", "l", "l", "i", "n", "g">>>>),
                   ThemeSample("sso", <<<<"s", "s", "o">>>>)>>),
    ConfigSample(<<ThemeSample("billing", <<<<"b", "i", "l", "l", "i", "n", "g">>>>),
                   ThemeSample("api", <<<<"a", "p", "i">>>>)>>) }

SeqsUpTo(S, n) == UNION {[1..k -> S] : k \in 0..n}

AnalyzeInit ==
  /\ conversations \in SeqsUpTo(ConvSamples, MaxConvs)
  /\ featureRequests \in SeqsUpTo(ReqSamples, MaxReqs)
  /\ config \in ConfigSamples
  /\ analysis = NoResult
  /\ scrubIn = <<>>
  /\ scrubOut = NoResult
  /\ scrubOut2 = NoResult
  /\ matchText = <<>>
  /\ matchKeywords = <<>>
  /\ matchResult = NoResult
  /\ frequencyCounts = <<>>
  /\ frequencyScores = NoResult
  /\ piiCategoriesLog = 0
  /\ piiSets = <<>>
  /\ calls = <<>>
  /\ scrubResults = <<>>
  /\ votePoints = <<>>
  /\ voteScores = NoResult
  /\ severityPoints = <<>>
  /\ clock = FirstDay
  /\ severityScores = <<>>
  /\ emergingPoints = <<>>
  /\ emergingMin = 0
  /\ emergingThemes = NoResult
  /\ priorityArgs = NoResult
  /\ priorityTheme = NoResult
  /\ rawThemes = NoResult
  /\ rawTexts = <<>>
  /\ rawOutcome = NoResult
  /\ hsNow = 0
  /\ requestTimestamps = <<>>
  /\ httpLog = <<>>
  /\ getters = <<>>
  /\ fetchRun = NoResult
  /\ tooMany = 0
  /\ fetchCache = <<>>
  /\ cacheNow = 0
  /\ planCalls = <<>>
  /\ fetchLog = <<>>

\* analyzeFeedback(conversations, featureRequests, config)
Analyze ==
  /\ analysis = NoResult
  /\ analysis' = analyzeFeedback(conversations, featureRequests, config, clock)
  /\ UNCHANGED <<conversations, featureRequests, config,
                 scrubVars, matchVars, scoreVars, serverVars, componentVars>>

AnalyzeNext == Analyze

\* ------------------------------------------------------------------------
\* Properties of the theme matching of analyzeFeedback
\* ------------------------------------------------------------------------

\* the data points analyzeFeedback was given, in its order
GivenPoints == DataPointsOf(conversations, featureRequests)

\* the positions of the given data points that match the keywords of a theme
MatchingPoints(theme) ==
  {k \in DOMAIN GivenPoints : matchesTheme(GivenPoints[k].text, theme.keywords)}

PointRef(dp) == [id |-> dp.id, source |-> dp.source, title |-> dp.title]

ReturnedThemes == {analysis.themes[i] : i \in DOMAIN analysis.themes}

ConfiguredThemes == {config.themes[j] : j \in DOMAIN config.themes}

\* C8: matching is not exclusive: a data point that matches the keywords of
\* several themes is listed, and counted once, under every one of them
C8_CountedInEveryTheme ==
  analysis # NoResult =>
    \A theme \in ConfiguredThemes :
      \A k \in MatchingPoints(theme) :
        \E tr \in ReturnedThemes :
          /\ tr.theme_id = theme.id
          /\ PointRef(GivenPoints[k]) \in Range(tr.data_points)
          /\ Len(tr.data_points) = Cardinality(MatchingPoints(theme))
          /\ tr.reactive_count + tr.proactive_count
               = Cardinality(MatchingPoints(theme))

\* a data point is listed under two returned themes
C8_Witness ==
  /\ analysis # NoResult
  /\ \E t1, t2 \in ReturnedThemes :
       /\ t1.theme_id # t2.theme_id
       /\ Range(t1.data_points) \cap Range(t2.data_points) # {}

PointsOf(theme) ==
  SelectSeq(GivenPoints, LAMBDA dp : matchesTheme(dp.text, theme.keywords))

PointLists == [j \in DOMAIN config.themes |-> PointsOf(config.themes[j])]

\* the priority of a configured theme from its unrounded frequency, severity
\* and vote momentum scores, with a given convergence boost
PriorityWith(theme, boost) ==
  priorityScore(
    frequencyScore(Len(PointsOf(theme)),
                   maxFrequency([j \in DOMAIN PointLists |-> Len(PointLists[j])])),
    computeSeverityScore(PointsOf(theme), clock),
    voteMomentumScore(computeVoteMomentum(PointsOf(theme)),
                      maxVoteMomentum(rawVoteMomentums(PointLists))),
    boost)

\* matched by data points of both provenances
IsConvergent(theme) ==
  /\ \E k \in DOMAIN PointsOf(theme) : PointsOf(theme)[k].source = "REACTIVE"
  /\ \E k \in DOMAIN PointsOf(theme) : PointsOf(theme)[k].source = "PROACTIVE"

ThemeOf(tr) == CHOOSE theme \in ConfiguredThemes : theme.id = tr.theme_id

\* C14 as stated: the reported priority_score of a convergent theme is
\* exactly twice the reported value its scores give with boost 1, both rounded
\* to two decimals; a theme of a single provenance has boost 1
C14_ReportedExactlyDouble ==
  analysis # NoResult =>
    \A tr \in ReturnedThemes :
      tr.priority_score =
        (IF IsConvergent(ThemeOf(tr)) THEN 2 ELSE 1)
          * round2(PriorityWith(ThemeOf(tr), 1))

\* C14: the reported priority_score of a convergent theme is twice the value
\* its scores give with boost 1, rounded to two decimals after the doubling:
\* it is within 0.01 of twice the reported boost-1 value; a theme of a single
\* provenance has boost 1
C14_DoubledThenRounded ==
  analysis # NoResult =>
    \A tr \in ReturnedThemes :
      /\ tr.convergent = IsConvergent(ThemeOf(tr))
      /\ IF tr.convergent
         THEN /\ tr.priority_score = round2(PriorityWith(ThemeOf(tr), 2))
              /\ tr.priority_score - 2 * round2(PriorityWith(ThemeOf(tr), 1))
                   \in {-1, 0, 1}
         ELSE tr.priority_score = round2(PriorityWith(ThemeOf(tr), 1))

\* a convergent theme with a positive priority_score is returned next to a
\* theme of a single provenance
C14_Witness ==
  /\ analysis # NoResult
  /\ \E t1, t2 \in ReturnedThemes :
       /\ t1.convergent
       /\ t1.priority_score > 0
       /\ ~t2.convergent

\* the position of a returned theme in config.themes
ConfigIndex(tr) == CHOOSE j \in DOMAIN config.themes : config.themes[j].id = tr.theme_id

ListedOf(tr, source) ==
  {k \in DOMAIN tr.data_points : tr.data_points[k].source = source}

\* C27: for every returned theme, convergent holds iff reactive_count and
\* proactive_count are both positive, the two counts add up to the number of
\* its data_points, and each is the number of data_points of its provenance
C27_CountsByProvenance ==
  analysis # NoResult =>
    \A tr \in ReturnedThemes :
      /\ tr.convergent = (tr.reactive_count > 0 /\ tr.proactive_count > 0)
      /\ tr.reactive_count + tr.proactive_count = Len(tr.data_points)
      /\ tr.reactive_count = Cardinality(ListedOf(tr, "REACTIVE"))
      /\ tr.proactive_count = Cardinality(ListedOf(tr, "PROACTIVE"))

\* a theme with two conversations and a feature request is returned next to
\* a theme of conversations only
C27_Witness ==
  /\ analysis # NoResult
  /\ \E t1, t2 \in ReturnedThemes :
       /\ t1.convergent
       /\ t1.reactive_count = 2
       /\ t1.proactive_count = 1
       /\ ~t2.convergent
       /\ t2.reactive_count > 0

\* ------------------------------------------------------------------------
\* analyzeFeedback on feature requests of several portals: fetchProductLift
\* removes repeated ids within a portal only, so posts of different portals
\* can carry the same id
\* ------------------------------------------------------------------------

PortalConvSamples ==
  { FormattedSample("7", <<"a", "p", "i">>, <<>>, <<>>, FirstDay),
    FormattedSample("8", <<"d", "a", "r", "k", " ", "m", "o", "d", "e">>, <<>>, <<>>,
                    FirstDay) }

PortalReqSamples ==
  { RequestSample("7", <<"A", "P", "I">>, <<>>, 3, 1),
    RequestSample("7", <<"d", "a", "r", "k", " ", "m", "o", "d", "e">>, <<>>, 1, 0),
    RequestSample("8", <<"b", "i", "l", "l", "i", "n", "g">>, <<>>, 0, 0) }

PortalsInit ==
  /\ conversations \in SeqsUpTo(PortalConvSamples, MaxConvs)
  /\ featureRequests \in SeqsUpTo(PortalReqSamples, MaxReqs)
  /\ config \in ConfigSamples
  /\ clock = FirstDay
  /\ analysis = NoResult
  /\ scrubIn = <<>>
  /\ scrubOut = NoResult
  /\ scrubOut2 = NoResult
  /\ matchText = <<>>
  /\ matchKeywords = <<>>
  /\ matchResult = NoResult
  /\ frequencyCounts = <<>>
  /\ frequencyScores = NoResult
  /\ piiCategoriesLog = 0
  /\ piiSets = <<>>
  /\ calls = <<>>
  /\ scrubResults = <<>>
  /\ votePoints = <<>>
  /\ voteScores = NoResult
  /\ severityPoints = <<>>
  /\ severityScores = <<>>
  /\ emergingPoints = <<>>
  /\ emergingMin = 0
  /\ emergingThemes = NoResult
  /\ priorityArgs = NoResult
  /\ priorityTheme = NoResult
  /\ rawThemes = NoResult
  /\ rawTexts = <<>>
  /\ rawOutcome = NoResult
  /\ hsNow = 0
  /\ requestTimestamps = <<>>
  /\ httpLog = <<>>
  /\ getters = <<>>
  /\ fetchRun = NoResult
  /\ tooMany = 0
  /\ fetchCache = <<>>
  /\ cacheNow = 0
  /\ planCalls = <<>>
  /\ fetchLog = <<>>

\* the given data points that match no configured theme, in order
UnmatchedGiven ==
  SelectSeq(GivenPoints,
            LAMBDA dp : \A theme \in ConfiguredThemes :
                          ~matchesTheme(dp.text, theme.keywords))

\* C21: total_data_points is reactive_count + proactive_count, unmatched_count
\* is the number of data points that matched no configured theme, and the
\* emerging themes are detected among exactly those points, also when
\* records of different portals carry the same id
C21_UnmatchedCounted ==
  analysis # NoResult =>
    /\ analysis.total_data_points
         = analysis.reactive_count + analysis.proactive_count
    /\ analysis.total_data_points = Len(GivenPoints)
    /\ analysis.unmatched_count = Len(UnmatchedGiven)
    /\ analysis.emerging_themes
         = detectEmergingThemes(UnmatchedGiven, Range(config.stop_words),
                                config.emerging_theme_min_frequency)

\* ------------------------------------------------------------------------
\* The frequency normalisation of analyzeFeedback applied to the match
\* counts of a few themes, small and large
\* ------------------------------------------------------------------------

MaxScoredThemes == 2

MaxCount == 3

\* the number of data points a theme can have matched
CountValues == 0..MaxCount \cup {19998, 19999, 40000, 40001}

ScoreInit ==
  /\ frequencyCounts \in UNION {[1..n -> CountValues] : n \in 1..MaxScoredThemes}
  /\ frequencyScores = NoResult
  /\ scrubIn = <<>>
  /\ scrubOut = NoResult
  /\ scrubOut2 = NoResult
  /\ matchText = <<>>
  /\ matchKeywords = <<>>
  /\ matchResult = NoResult
  /\ conversations = <<>>
  /\ featureRequests = <<>>
  /\ config = NoResult
  /\ analysis = NoResult
  /\ piiCategoriesLog = 0
  /\ piiSets = <<>>
  /\ calls = <<>>
  /\ scrubResults = <<>>
  /\ votePoints = <<>>
  /\ voteScores = NoResult
  /\ severityPoints = <<>>
  /\ clock = 0
  /\ severityScores = <<>>
  /\ emergingPoints = <<>>
  /\ emergingMin = 0
  /\ emergingThemes = NoResult
  /\ priorityArgs = NoResult
  /\ priorityTheme = NoResult
  /\ rawThemes = NoResult
  /\ rawTexts = <<>>
  /\ rawOutcome = NoResult
  /\ hsNow = 0
  /\ requestTimestamps = <<>>
  /\ httpLog = <<>>
  /\ getters = <<>>
  /\ fetchRun = NoResult
  /\ tooMany = 0
  /\ fetchCache = <<>>
  /\ cacheNow = 0
  /\ planCalls = <<>>
  /\ fetchLog = <<>>

\* the frequency_score of every theme that analyzeFeedback returns, from the
\* frequencyCounts of the configured themes
ScoreFrequencies ==
  /\ frequencyScores = NoResult
  /\ frequencyScores' =
       [value |->
          [i \in {j \in DOMAIN frequencyCounts : frequencyCounts[j] # 0} |->
             round2(frequencyScore(frequencyCounts[i],
                                   maxFrequency(frequencyCounts)))]]
  /\ UNCHANGED <<frequencyCounts, scrubVars, matchVars, analyzeVars, serverVars, componentVars>>

ScoreNext == ScoreFrequencies

\* ------------------------------------------------------------------------
\* Properties of the frequency normalisation
\* ------------------------------------------------------------------------

\* the frequency_score of the returned themes, by position in config.themes
ReturnedScores == frequencyScores.value

\* the largest match count among the themes
TopCount == Max(Range(frequencyCounts))

\* C10 as stated: the theme with the highest match count has frequency_score
\* exactly 100 and every other returned theme a score strictly between 0
\* and 100
C10_TopExactlyOthersStrictlyBetween ==
  frequencyScores # NoResult =>
    \A i \in DOMAIN ReturnedScores :
      IF frequencyCounts[i] = TopCount
      THEN ReturnedScores[i] = 10000
      ELSE 0 < ReturnedScores[i] /\ ReturnedScores[i] < 10000

\* C10: the themes with the highest match count have frequency_score exactly
\* 100; every other returned theme has a score from 0 to 100, and strictly
\* between 0 and 100 when the highest match count is below 20000
C10_TopExactlyOthersBetween ==
  frequencyScores # NoResult =>
    \A i \in DOMAIN ReturnedScores :
      IF frequencyCounts[i] = TopCount
      THEN ReturnedScores[i] = 10000
      ELSE /\ 0 <= ReturnedScores[i]
           /\ ReturnedScores[i] <= 10000
           /\ TopCount < 20000 =>
                0 < ReturnedScores[i] /\ ReturnedScores[i] < 10000

\* a top theme at 100 next to a returned theme strictly between 0 and 100
C10_Witness ==
  /\ frequencyScores # NoResult
  /\ \E i, j \in DOMAIN ReturnedScores :
       /\ frequencyCounts[i] = TopCount
       /\ ReturnedScores[i] = 10000
       /\ frequencyCounts[j] < TopCount
       /\ 0 < ReturnedScores[j]
       /\ ReturnedScores[j] < 10000

\* ------------------------------------------------------------------------
\* The vote momentum normalisation on its own: analyzeFeedback, the lines
\* that compute vote_momentum_score from the matched points of each theme
\* ------------------------------------------------------------------------

MaxVotePoints == 1

VotedThemes == 3

\* a feature request as a data point, by its votes and comments
VotePoint(votes, comments) ==
  featureRequestToDataPoint(RequestSample("p", <<"x">>, <<>>, votes, comments))

\* the points a theme can have matched: feature requests with few or no
\* votes and comments, and a conversation
VotePointSamples ==
  {VotePoint(1, 0), VotePoint(0, 1), VotePoint(3, 1),
   conversationToDataPoint(FormattedSample("1", <<"x">>, <<>>, <<>>, 10))}

VoteInit ==
  /\ votePoints \in [1..VotedThemes -> SeqsUpTo(VotePointSamples, MaxVotePoints)]
  /\ voteScores = NoResult
  /\ scrubIn = <<>>
  /\ scrubOut = NoResult
  /\ scrubOut2 = NoResult
  /\ matchText = <<>>
  /\ matchKeywords = <<>>
  /\ matchResult = NoResult
  /\ conversations = <<>>
  /\ featureRequests = <<>>
  /\ config = NoResult
  /\ analysis = NoResult
  /\ frequencyCounts = <<>>
  /\ frequencyScores = NoResult
  /\ piiCategoriesLog = 0
  /\ piiSets = <<>>
  /\ calls = <<>>
  /\ scrubResults = <<>>
  /\ severityPoints = <<>>
  /\ clock = 0
  /\ severityScores = <<>>
  /\ emergingPoints = <<>>
  /\ emergingMin = 0
  /\ emergingThemes = NoResult
  /\ priorityArgs = NoResult
  /\ priorityTheme = NoResult
  /\ rawThemes = NoResult
  /\ rawTexts = <<>>
  /\ rawOutcome = NoResult
  /\ hsNow = 0
  /\ requestTimestamps = <<>>
  /\ httpLog = <<>>
  /\ getters = <<>>
  /\ fetchRun = NoResult
  /\ tooMany = 0
  /\ fetchCache = <<>>
  /\ cacheNow = 0
  /\ planCalls = <<>>
  /\ fetchLog = <<>>

\* the vote_momentum_score reported for every theme
ScoreVotes ==
  /\ voteScores = NoResult
  /\ voteScores' =
       [value |->
          LET raws == rawVoteMomentums(votePoints)
          IN [i \in DOMAIN votePoints |->
                round2(voteMomentumScore(raws[i], maxVoteMomentum(raws)))]]
  /\ UNCHANGED <<votePoints, programVars, severityVars, emergingVars,
                 priorityVars,
                 rawVars,
                 clientVars,
                 planVars>>

VoteNext == ScoreVotes

\* ------------------------------------------------------------------------
\* Properties of the vote momentum normalisation
\* ------------------------------------------------------------------------

\* the raw vote momentum of theme i, in tenths
RawVotes(i) == computeVoteMomentum(votePoints[i]).num

\* C11: whenever some theme has a positive raw vote momentum, every theme
\* with the largest raw vote momentum has vote_momentum_score 100
C11_TopVoteScoreIs100 ==
  voteScores # NoResult =>
    \A i \in DOMAIN votePoints :
      (RawVotes(i) > 0 /\ \A j \in DOMAIN votePoints : RawVotes(j) <= RawVotes(i))
        => voteScores.value[i] = 10000

\* ------------------------------------------------------------------------
\* computeSeverityScore on its own, invoked at the times the clock shows
\* ------------------------------------------------------------------------

MaxSeverityPoints == 2

MaxRuns == 2

\* a conversation as a data point, by its tags, thread count and creation day
SeverityPoint(tags, threads, createdAt) ==
  conversationToDataPoint(
    [FormattedSample("1", <<"x">>, <<>>, tags, createdAt)
       EXCEPT !.threadCount = threads])

Tag_bug == <<"b", "u", "g">>

Tag_escalation == <<"e", "s", "c", "a", "l", "a", "t", "i", "o", "n">>

Tag_Urgent == <<"U", "r", "g", "e", "n", "t">>

Tag_vip == <<"v", "i", "p">>

\* the points of a theme: conversations that differ in tags, thread count
\* and age (one of them dated after FirstDay), and a feature request
SeverityPointSamples ==
  {SeverityPoint(<<Tag_bug, Tag_escalation>>, 1, 10),
   SeverityPoint(<<Tag_escalation, Tag_bug>>, 1, 10),
   SeverityPoint(<<Tag_vip, Tag_Urgent>>, 0, 3),
   SeverityPoint(<<>>, 7, 17),
   VotePoint(3, 1)}

SeverityInit ==
  /\ severityPoints \in SeqsUpTo(SeverityPointSamples, MaxSeverityPoints)
  /\ clock = FirstDay
  /\ severityScores = <<>>
  /\ votePoints = <<>>
  /\ voteScores = NoResult
  /\ scrubIn = <<>>
  /\ scrubOut = NoResult
  /\ scrubOut2 = NoResult
  /\ matchText = <<>>
  /\ matchKeywords = <<>>
  /\ matchResult = NoResult
  /\ conversations = <<>>
  /\ featureRequests = <<>>
  /\ config = NoResult
  /\ analysis = NoResult
  /\ frequencyCounts = <<>>
  /\ frequencyScores = NoResult
  /\ piiCategoriesLog = 0
  /\ piiSets = <<>>
  /\ calls = <<>>
  /\ scrubResults = <<>>
  /\ emergingPoints = <<>>
  /\ emergingMin = 0
  /\ emergingThemes = NoResult
  /\ priorityArgs = NoResult
  /\ priorityTheme = NoResult
  /\ rawThemes = NoResult
  /\ rawTexts = <<>>
  /\ rawOutcome = NoResult
  /\ hsNow = 0
  /\ requestTimestamps = <<>>
  /\ httpLog = <<>>
  /\ getters = <<>>
  /\ fetchRun = NoResult
  /\ tooMany = 0
  /\ fetchCache = <<>>
  /\ cacheNow = 0
  /\ planCalls = <<>>
  /\ fetchLog = <<>>

\* time passes
Tick ==
  /\ clock < LastDay
  /\ clock' = clock + 7
  /\ UNCHANGED <<severityPoints, severityScores, programVars, voteVars,
                 emergingVars, priorityVars,
                 rawVars,
                 clientVars,
                 planVars>>

\* one invocation of computeSeverityScore on the points
ComputeSeverity ==
  /\ Len(severityScores) < MaxRuns
  /\ severityScores' =
       Append(severityScores,
              [now |-> clock,
               value |-> computeSeverityScore(severityPoints, clock)])
  /\ UNCHANGED <<severityPoints, clock, programVars, voteVars, emergingVars,
                 priorityVars,
                 rawVars,
                 clientVars,
                 planVars>>

SeverityNext == Tick \/ ComputeSeverity

\* ------------------------------------------------------------------------
\* Properties of computeSeverityScore
\* ------------------------------------------------------------------------

ReactivePoints == SelectSeq(severityPoints, LAMBDA p : p.source = "REACTIVE")

\* the values of SEVERITY_TAG_BOOST for the tags of a point, whatever their case
TagValues(p) ==
  {SEVERITY_TAG_BOOST[toLowerCase(p.metadata.tags[k])] :
     k \in {j \in DOMAIN p.metadata.tags :
              toLowerCase(p.metadata.tags[j]) \in DOMAIN SEVERITY_TAG_BOOST}}

\* the contribution of a point on day now with a given tag bonus, in hundredths
ContributionWith(p, now, bonus) ==
  100 * Min(p.metadata.thread_count * 10, 50) + recencyBoost(now - p.created_at)
    + 100 * bonus

\* C12: the tag bonus in the contribution of a reactive point is the highest
\* value among its tags that are in the boost table, whatever their order,
\* and 0 when none is: seen in the score of a single point computed on the
\* first day
C12_TagBonusIsHighest ==
  (Len(severityPoints) = 1 /\ Len(ReactivePoints) = 1 /\ Len(severityScores) > 0
     /\ severityScores[1].now = FirstDay)
    => severityScores[1].value.num =
         Min(ContributionWith(ReactivePoints[1], FirstDay,
                              Max(TagValues(ReactivePoints[1]) \cup {0})),
             10000)

\* the sum of the contributions of the reactive points on day now
TotalContribution(now) ==
  Sum([i \in DOMAIN ReactivePoints |-> pointScore(ReactivePoints[i], now)])

C16_SameInputsSameScore ==
  \A r1, r2 \in Range(severityScores) : r1.value = r2.value

\* ------------------------------------------------------------------------
\* detectEmergingThemes on its own, over unmatched conversations whose
\* subjects share words
\* ------------------------------------------------------------------------

MaxUnmatched == 4

MaxMinFrequency == 3

Text_DarkMode == <<"d", "a", "r", "k", " ", "m", "o", "d", "e">>

Text_EnableDarkMode == <<"E", "n", "a", "b", "l", "e", " ", "d", "a", "r", "k", " ", "m", "o", "d", "e">>

Text_DarkModeApp == <<"d", "a", "r", "k", "-", "m", "o", "d", "e", " ", "a", "p", "p">>

Text_ModeAppSlow == <<"m", "o", "d", "e", " ", "a", "p", "p", " ", "s", "l", "o", "w">>

Text_AppIsSlow == <<"t", "h", "e", " ", "a", "p", "p", " ", "i", "s", " ", "s", "l", "o", "w">>

\* subjects with bigrams in common, with a capital, a hyphen, a stop word
\* and a word of two letters
EmergingTexts ==
  {Text_DarkMode, Text_EnableDarkMode, Text_DarkModeApp, Text_ModeAppSlow,
   Text_AppIsSlow}

\* config.stop_words, as a Set
StopWords == {<<"t", "h", "e">>}

PointIds == <<"1", "2", "3", "4", "5">>

\* the unmatched points: a conversation for each subject, each with its id
EmergingPointsOf(subjects) ==
  [i \in DOMAIN subjects |->
     conversationToDataPoint(
       FormattedSample(PointIds[i], subjects[i], <<>>, <<>>, FirstDay))]

EmergingInit ==
  /\ emergingPoints \in
       {EmergingPointsOf(subjects) : subjects \in SeqsUpTo(EmergingTexts, MaxUnmatched)}
  /\ emergingMin \in 1..MaxMinFrequency
  /\ priorityArgs = NoResult
  /\ priorityTheme = NoResult
  /\ emergingThemes = NoResult
  /\ severityPoints = <<>>
  /\ clock = 0
  /\ severityScores = <<>>
  /\ votePoints = <<>>
  /\ voteScores = NoResult
  /\ scrubIn = <<>>
  /\ scrubOut = NoResult
  /\ scrubOut2 = NoResult
  /\ matchText = <<>>
  /\ matchKeywords = <<>>
  /\ matchResult = NoResult
  /\ conversations = <<>>
  /\ featureRequests = <<>>
  /\ config = NoResult
  /\ analysis = NoResult
  /\ frequencyCounts = <<>>
  /\ frequencyScores = NoResult
  /\ piiCategoriesLog = 0
  /\ piiSets = <<>>
  /\ calls = <<>>
  /\ scrubResults = <<>>
  /\ rawThemes = NoResult
  /\ rawTexts = <<>>
  /\ rawOutcome = NoResult
  /\ hsNow = 0
  /\ requestTimestamps = <<>>
  /\ httpLog = <<>>
  /\ getters = <<>>
  /\ fetchRun = NoResult
  /\ tooMany = 0
  /\ fetchCache = <<>>
  /\ cacheNow = 0
  /\ planCalls = <<>>
  /\ fetchLog = <<>>

\* detectEmergingThemes(unmatchedPoints, stopWords, minFrequency)
Detect ==
  /\ emergingThemes = NoResult
  /\ emergingThemes' =
       [value |-> detectEmergingThemes(emergingPoints, StopWords, emergingMin)]
  /\ UNCHANGED <<emergingPoints, emergingMin, programVars, voteVars, severityVars,
                 priorityVars,
                 rawVars,
                 clientVars,
                 planVars>>

EmergingNext == Detect

\* ------------------------------------------------------------------------
\* Properties of detectEmergingThemes
\* ------------------------------------------------------------------------

\* the EmergingThemes returned
Emerging == emergingThemes.value

\* C17: the data points of the returned EmergingThemes are pairwise disjoint,
\* and the frequency of each is the number of its data points, at least
\* minFrequency
C17_DisjointClaims ==
  emergingThemes # NoResult =>
    /\ \A a, b \in DOMAIN Emerging :
         a # b => Range(Emerging[a].data_points)
                    \cap Range(Emerging[b].data_points) = {}
    /\ \A a \in DOMAIN Emerging :
         /\ Emerging[a].frequency = Len(Emerging[a].data_points)
         /\ Emerging[a].frequency = Cardinality(Range(Emerging[a].data_points))
         /\ Emerging[a].frequency >= emergingMin
         /\ Range(Emerging[a].data_points)
              \subseteq {PointRef(emergingPoints[i]) : i \in DOMAIN emergingPoints}

\* two EmergingThemes are returned, one of them for several points that
\* also contain the n-gram of the other
C17_Witness ==
  /\ emergingThemes # NoResult
  /\ \E a, b \in DOMAIN Emerging :
       /\ a # b
       /\ Emerging[a].frequency >= 2
       /\ \E i \in DOMAIN emergingPoints :
            /\ PointRef(emergingPoints[i]) \in Range(Emerging[a].data_points)
            /\ Emerging[b].ngram
                 \in Range(extractNgrams(tokenize(emergingPoints[i].text, StopWords)))

\* the surviving n-grams in the order in which the claim loop processes them
Sorted == sortedNgrams(emergingPoints, StopWords, emergingMin)

\* the points claimed when the loop comes to entry j of Sorted
ClaimedBefore(j) ==
  claimLoop(SubSeq(Sorted, 1, j - 1), 1, [claimed |-> {}, emerging |-> <<>>],
            emergingPoints, emergingMin).claimed

\* C18: the claim loop processes the surviving n-grams in descending order of
\* their currently unclaimed points, so that of two n-grams that compete for
\* a point the one with more unclaimed points claims first: an n-gram that
\* claims has at least as many unclaimed points as every n-gram not yet
\* processed that contains one of the points it claims
C18_MoreUnclaimedClaimsFirst ==
  emergingThemes # NoResult =>
    \A j, l \in DOMAIN Sorted :
      (/\ j < l
       /\ Cardinality(Sorted[j].points \ ClaimedBefore(j)) >= emergingMin
       /\ (Sorted[j].points \ ClaimedBefore(j)) \cap Sorted[l].points # {})
        => Cardinality(Sorted[j].points \ ClaimedBefore(j))
             >= Cardinality(Sorted[l].points \ ClaimedBefore(j))

\* the bigrams of a point
Bigrams(p) ==
  LET tokens == tokenize(p.text, StopWords)
  IN {join(<<tokens[i], tokens[i + 1]>>, <<" ">>) : i \in 1..(Len(tokens) - 1)}

\* C19: when all k >= minFrequency unmatched points contain the same bigram
\* (so that no n-gram occurs in more points), exactly one EmergingTheme is
\* returned, for that bigram and with all k points
C19_SharedBigramClaimsAll ==
  (emergingThemes # NoResult /\ Len(emergingPoints) >= emergingMin) =>
    \A g \in UNION {Bigrams(emergingPoints[i]) : i \in DOMAIN emergingPoints} :
      (\A i \in DOMAIN emergingPoints : g \in Bigrams(emergingPoints[i])) =>
        /\ Len(Emerging) = 1
        /\ Emerging[1].ngram = g
        /\ Emerging[1].frequency = Len(emergingPoints)

\* ------------------------------------------------------------------------
\* detectEmergingThemes over more points: subjects that share a bigram in a
\* chain, and a subject that shares none with them
\* ------------------------------------------------------------------------

MaxOrdered == 5

Text_SsoLogin == <<"s", "s", "o", " ", "l", "o", "g", "i", "n">>

OrderTexts == {Text_DarkMode, Text_DarkModeApp, Text_ModeAppSlow, Text_SsoLogin}

OrderInit ==
  /\ emergingPoints \in
       {EmergingPointsOf(subjects) : subjects \in SeqsUpTo(OrderTexts, MaxOrdered)}
  /\ emergingMin \in 1..MaxMinFrequency
  /\ emergingThemes = NoResult
  /\ fetchCache = <<>>
  /\ cacheNow = 0
  /\ planCalls = <<>>
  /\ fetchLog = <<>>
  /\ piiCategoriesLog = 0
  /\ hsNow = 0
  /\ requestTimestamps = <<>>
  /\ httpLog = <<>>
  /\ getters = <<>>
  /\ fetchRun = NoResult
  /\ tooMany = 0
  /\ rawThemes = NoResult
  /\ rawTexts = <<>>
  /\ rawOutcome = NoResult
  /\ priorityArgs = NoResult
  /\ priorityTheme = NoResult
  /\ clock = 0
  /\ severityPoints = <<>>
  /\ severityScores = <<>>
  /\ votePoints = <<>>
  /\ voteScores = NoResult
  /\ scrubIn = <<>>
  /\ scrubOut = NoResult
  /\ scrubOut2 = NoResult
  /\ matchText = <<>>
  /\ matchKeywords = <<>>
  /\ matchResult = NoResult
  /\ conversations = <<>>
  /\ featureRequests = <<>>
  /\ config = NoResult
  /\ analysis = NoResult
  /\ frequencyCounts = <<>>
  /\ frequencyScores = NoResult
  /\ piiSets = <<>>
  /\ calls = <<>>
  /\ scrubResults = <<>>

\* C29: the EmergingThemes are returned in non-increasing order of frequency
C29_FrequencyDescending ==
  emergingThemes # NoResult =>
    \A a, b \in DOMAIN Emerging : a < b => Emerging[a].frequency >= Emerging[b].frequency

\* ------------------------------------------------------------------------
\* The priority score of one theme on its own: analyzeFeedback, the loop
\* that builds the ThemeMatch results, given the theme's points and the
\* highest match count and raw vote momentum among the other themes
\* ------------------------------------------------------------------------

MaxPriorityPoints == 2

\* the points of the theme: a conversation with the highest severity, one
\* with none (no threads, no tag, created 700 days ago, which leaves a
\* recency term below 1e-40), one in between, and feature requests
\* with and without votes
PriorityPointSamples ==
  {SeverityPoint(<<Tag_escalation>>, 7, FirstDay),
   SeverityPoint(<<>>, 0, FirstDay - 700),
   SeverityPoint(<<>>, 1, FirstDay),
   VotePoint(3, 1),
   VotePoint(0, 0)}

\* the highest match count among the other themes
OtherCounts == {0, 3, 7000, 7001}

\* the highest raw vote momentum among the other themes, in tenths
OtherRaws == {0, 100}

PriorityInit ==
  /\ priorityArgs \in
       [points : SeqsUpTo(PriorityPointSamples, MaxPriorityPoints),
        otherCount : OtherCounts,
        otherRaw : OtherRaws]
  /\ priorityTheme = NoResult
  /\ clock = FirstDay
  /\ severityPoints = <<>>
  /\ severityScores = <<>>
  /\ votePoints = <<>>
  /\ voteScores = NoResult
  /\ scrubIn = <<>>
  /\ scrubOut = NoResult
  /\ scrubOut2 = NoResult
  /\ matchText = <<>>
  /\ matchKeywords = <<>>
  /\ matchResult = NoResult
  /\ conversations = <<>>
  /\ featureRequests = <<>>
  /\ config = NoResult
  /\ analysis = NoResult
  /\ frequencyCounts = <<>>
  /\ frequencyScores = NoResult
  /\ piiCategoriesLog = 0
  /\ piiSets = <<>>
  /\ calls = <<>>
  /\ scrubResults = <<>>
  /\ emergingPoints = <<>>
  /\ emergingMin = 0
  /\ emergingThemes = NoResult
  /\ rawThemes = NoResult
  /\ rawTexts = <<>>
  /\ rawOutcome = NoResult
  /\ hsNow = 0
  /\ requestTimestamps = <<>>
  /\ httpLog = <<>>
  /\ getters = <<>>
  /\ fetchRun = NoResult
  /\ tooMany = 0
  /\ fetchCache = <<>>
  /\ cacheNow = 0
  /\ planCalls = <<>>
  /\ fetchLog = <<>>

\* the match counts and raw vote momentums the loop works with: those of the
\* theme and the highest among the others
PriorityCounts == <<Len(priorityArgs.points), priorityArgs.otherCount>>

PriorityRaws ==
  <<computeVoteMomentum(priorityArgs.points),
    [num |-> priorityArgs.otherRaw, den |-> 10]>>

\* one turn of the loop: nothing is pushed for a theme without points
ScorePriority ==
  /\ priorityArgs # NoResult
  /\ priorityTheme = NoResult
  /\ priorityTheme' =
       [value |-> BuildThemes(<<ThemeSample("api", <<>>)>>,
                              [id \in {"api"} |-> priorityArgs.points],
                              PriorityCounts, PriorityRaws, clock, 1)]
  /\ UNCHANGED <<priorityArgs, programVars, voteVars, severityVars,
                 emergingVars,
                 rawVars,
                 clientVars,
                 planVars>>

PriorityNext == ScorePriority

\* ------------------------------------------------------------------------
\* Properties of the priority score
\* ------------------------------------------------------------------------

\* the ThemeMatch results pushed, none before the loop ran
PushedThemes == IF priorityTheme = NoResult THEN <<>> ELSE priorityTheme.value

JsonString(chars) == [type |-> "string", chars |-> chars]

JsonNumber(n) == [type |-> "number", value |-> n]

JsonArray(items) == [type |-> "array", items |-> items]

\* a theme of the file: an object with an id and keywords
JsonTheme(id, keywords) == [type |-> "object", id |-> id, keywords |-> keywords]

\* an object without any of the properties read, as {} is
JsonEmptyObject == [type |-> "object"]

Undefined == [type |-> "undefined"]

\* what for (const x of v) iterates over: the items of an array, the
\* characters of a string; any other value is not iterable
IsIterable(v) == v.type \in {"array", "string"}

IterationOf(v) ==
  IF v.type = "array" THEN v.items
  ELSE [i \in DOMAIN v.chars |-> JsonString(<<v.chars[i]>>)]

\* theme.keywords: undefined where the value has no such property
KeywordsOf(theme) ==
  IF "keywords" \in DOMAIN theme THEN theme.keywords ELSE Undefined

\* the loop of matchesTheme from entry k on: "true" at the first keyword that
\* matches, "false" after the last, "TypeError" at an entry that is not a
\* string (kw.includes, kw.toLowerCase or str.replace is not a function)
RECURSIVE matchesThemeFrom(_, _, _)
matchesThemeFrom(text, entries, k) ==
  IF k > Len(entries) THEN "false"
  ELSE IF entries[k].type # "string" THEN "TypeError"
  ELSE IF KeywordMatches(text, entries[k].chars) THEN "true"
  ELSE matchesThemeFrom(text, entries, k + 1)

\* matchesTheme(text, keywords) on any value of keywords
matchesThemeRaw(text, keywords) ==
  IF ~IsIterable(keywords) THEN "TypeError"
  ELSE matchesThemeFrom(text, IterationOf(keywords), 1)

\* for (const dp of dataPoints) for (const theme of config.themes)
\* if (matchesTheme(dp.text, theme.keywords)) ..., from point d and theme t on
RECURSIVE matchLoops(_, _, _, _)
matchLoops(texts, themes, d, t) ==
  IF d > Len(texts) THEN "returned"
  ELSE IF t > Len(themes) THEN matchLoops(texts, themes, d + 1, 1)
  ELSE IF matchesThemeRaw(texts[d], KeywordsOf(themes[t])) = "TypeError"
       THEN "TypeError"
  ELSE matchLoops(texts, themes, d, t + 1)

\* analyzeFeedback up to its return: the first for...of over config.themes
\* throws on a value that is not iterable, then the matching loops run; the
\* rest reads theme.id, theme.label and config.themes.length, which no value
\* iterated over makes throw
analyzeFeedbackRaw(texts, themes) ==
  IF ~IsIterable(themes) THEN "TypeError"
  ELSE matchLoops(texts, IterationOf(themes), 1, 1)

MaxRawThemes == 2

MaxRawKeywords == 2

MaxRawTexts == 2

\* keyword entries: a string and a number
RawKeywords == {JsonString(<<"a", "p", "i">>), JsonNumber(5)}

RawKeywordLists == {JsonArray(kws) : kws \in SeqsUpTo(RawKeywords, MaxRawKeywords)}

RawThemeSamples == {JsonTheme("t", kws) : kws \in RawKeywordLists}

\* config.themes: lists of themes, an object, and a string
RawThemesSamples ==
  {JsonArray(ts) : ts \in SeqsUpTo(RawThemeSamples, MaxRawThemes)}
    \cup {JsonEmptyObject, JsonString(<<"a", "b">>)}

RawTextSamples == {<<"a", "p", "i">>, <<"x">>}

RawInit ==
  /\ rawThemes \in RawThemesSamples
  /\ rawTexts \in SeqsUpTo(RawTextSamples, MaxRawTexts)
  /\ rawOutcome = NoResult
  /\ priorityArgs = NoResult
  /\ priorityTheme = NoResult
  /\ clock = 0
  /\ severityPoints = <<>>
  /\ severityScores = <<>>
  /\ votePoints = <<>>
  /\ voteScores = NoResult
  /\ scrubIn = <<>>
  /\ scrubOut = NoResult
  /\ scrubOut2 = NoResult
  /\ matchText = <<>>
  /\ matchKeywords = <<>>
  /\ matchResult = NoResult
  /\ conversations = <<>>
  /\ featureRequests = <<>>
  /\ config = NoResult
  /\ analysis = NoResult
  /\ frequencyCounts = <<>>
  /\ frequencyScores = NoResult
  /\ piiCategoriesLog = 0
  /\ piiSets = <<>>
  /\ calls = <<>>
  /\ scrubResults = <<>>
  /\ emergingPoints = <<>>
  /\ emergingMin = 0
  /\ emergingThemes = NoResult
  /\ hsNow = 0
  /\ requestTimestamps = <<>>
  /\ httpLog = <<>>
  /\ getters = <<>>
  /\ fetchRun = NoResult
  /\ tooMany = 0
  /\ fetchCache = <<>>
  /\ cacheNow = 0
  /\ planCalls = <<>>
  /\ fetchLog = <<>>

\* analyzeFeedback(conversations, featureRequests, config)
AnalyzeRaw ==
  /\ rawOutcome = NoResult
  /\ rawOutcome' = [value |-> analyzeFeedbackRaw(rawTexts, rawThemes)]
  /\ UNCHANGED <<rawThemes, rawTexts, programVars, voteVars, severityVars,
                 emergingVars, priorityVars,
                 clientVars,
                 planVars>>

RawNext == AnalyzeRaw

\* ------------------------------------------------------------------------
\* Properties of analyzeFeedback on a malformed configuration
\* ------------------------------------------------------------------------

\* config.themes is not a list, or a keyword entry of a theme is not a string
StructurallyInvalid(themes) ==
  \/ themes.type # "array"
  \/ \E t \in DOMAIN themes.items :
       \/ KeywordsOf(themes.items[t]).type # "array"
       \/ \E k \in DOMAIN themes.items[t].keywords.items :
            themes.items[t].keywords.items[k].type # "string"

\* C22: whenever config.themes is not a list or a keyword entry is not a
\* string, the analysis ends in an error, whatever the Signals and the
\* keywords in front of the malformed one
C22_InvalidConfigIsAnError ==
  (rawOutcome # NoResult /\ StructurallyInvalid(rawThemes))
    => rawOutcome.value = "TypeError"

\* ------------------------------------------------------------------------
\* helpscout.ts: the client's rate limiter, apiGet and fetchConversations
\*
\* Time is Date.now() in ms and moves to the next timer or response when
\* nothing else can run.  fetchConversations fetches the pages one after the
\* other and, with includeThreads, the threads in batches of CONCURRENCY
\* apiGet calls; the code between two awaits runs as one step.
\* ------------------------------------------------------------------------

RATE_LIMIT_WINDOW_MS == 60000

MAX_REQUESTS_PER_WINDOW == 170

PAGE_DELAY_MS == 250

\* the margin rateLimit adds to its wait
WAIT_MARGIN_MS == 100

\* the back-off of apiGet after a 429
BACKOFF_MS == 15000

CONCURRENCY == 5

Max429 == 2

\* the conversations on each page the API holds: a single short page, and
\* seven pages of 25
PageLists == {<<2>>, [p \in 1..7 |-> 25]}

\* the time the API takes to answer
ResponseTimes == {40, 100}

IdleGetter == [pc |-> "idle", wakeAt |-> 0, requests |-> 0]

IdleGetters == [c \in 1..CONCURRENCY |-> IdleGetter]

ClientInit ==
  /\ hsNow = 0
  /\ requestTimestamps = <<>>
  /\ httpLog = <<>>
  /\ getters = IdleGetters
  /\ fetchRun \in
       [pc : {"start"}, pageLists : PageLists, includeThreads : BOOLEAN,
        responseMs : ResponseTimes, page : {0}, collected : {0}, next : {0},
        wakeAt : {0}]
  /\ tooMany \in 0..Max429
  /\ rawThemes = NoResult
  /\ rawTexts = <<>>
  /\ rawOutcome = NoResult
  /\ priorityArgs = NoResult
  /\ priorityTheme = NoResult
  /\ clock = 0
  /\ severityPoints = <<>>
  /\ severityScores = <<>>
  /\ votePoints = <<>>
  /\ voteScores = NoResult
  /\ scrubIn = <<>>
  /\ scrubOut = NoResult
  /\ scrubOut2 = NoResult
  /\ matchText = <<>>
  /\ matchKeywords = <<>>
  /\ matchResult = NoResult
  /\ conversations = <<>>
  /\ featureRequests = <<>>
  /\ config = NoResult
  /\ analysis = NoResult
  /\ frequencyCounts = <<>>
  /\ frequencyScores = NoResult
  /\ piiCategoriesLog = 0
  /\ piiSets = <<>>
  /\ calls = <<>>
  /\ scrubResults = <<>>
  /\ emergingPoints = <<>>
  /\ emergingMin = 0
  /\ emergingThemes = NoResult
  /\ fetchCache = <<>>
  /\ cacheNow = 0
  /\ planCalls = <<>>
  /\ fetchLog = <<>>

\* this.requestTimestamps.filter((t) => now - t < RATE_LIMIT_WINDOW_MS)
Pruned(stamps, now) == SelectSeq(stamps, LAMBDA t : now - t < RATE_LIMIT_WINDOW_MS)

\* waitMs of rateLimit, oldestInWindow being the first timestamp kept
WaitMs(kept, now) == RATE_LIMIT_WINDOW_MS - (now - kept[1]) + WAIT_MARGIN_MS

\* the client as the steps below change it
Client == [stamps |-> requestTimestamps, log |-> httpLog, getters |-> getters]

\* rateLimit pushes Date.now() and apiGet sends the request (the token is
\* cached): getter c awaits the response
Sends(st, c, now, responseMs) ==
  [stamps |-> Append(st.stamps, now),
   log |-> Append(st.log, now),
   getters |-> [st.getters EXCEPT ![c] =
                  [pc |-> "inFlight", wakeAt |-> now + responseMs,
                   requests |-> @.requests + 1]]]

\* apiGet from its first line to its first await of a timer or a response:
\* rateLimit prunes the timestamps and either awaits its timer, when
\* MAX_REQUESTS_PER_WINDOW of them are left, or lets the request go
Enters(st, c, now, responseMs) ==
  LET kept == Pruned(st.stamps, now)
  IN IF Len(kept) >= MAX_REQUESTS_PER_WINDOW
     THEN [stamps |-> kept,
           log |-> st.log,
           getters |-> [st.getters EXCEPT ![c] =
                          [@ EXCEPT !.pc = "limited",
                                    !.wakeAt = now + WaitMs(kept, now)]]]
     ELSE Sends([st EXCEPT !.stamps = kept], c, now, responseMs)

\* batch.map(async (conv) => ... await this.fetchThreads(conv.id) ...): the
\* apiGet calls of a batch enter one after the other in the same step
RECURSIVE EnterAll(_, _, _, _, _)
EnterAll(st, c, last, now, responseMs) ==
  IF c > last THEN st
  ELSE EnterAll(Enters(st, c, now, responseMs), c + 1, last, now, responseMs)

\* the size of the batch that begins after conversation i of total
BatchSize(total, i) == Min(CONCURRENCY, total - i)

\* a fresh call of apiGet for each of the first n getters
Fresh(st) == [st EXCEPT !.getters = IdleGetters]

Becomes(st) ==
  /\ requestTimestamps' = st.stamps
  /\ httpLog' = st.log
  /\ getters' = st.getters

\* fetchConversations up to the await of the first page
StartFetch ==
  /\ fetchRun.pc = "start"
  /\ Becomes(Enters(Fresh(Client), 1, hsNow, fetchRun.responseMs))
  /\ fetchRun' = [fetchRun EXCEPT !.pc = "page", !.page = 1]
  /\ UNCHANGED <<hsNow, tooMany, programVars, voteVars, severityVars,
                 emergingVars, priorityVars, rawVars,
                 planVars>>

\* the timer of rateLimit fires for getter c: Date.now() is pushed, without
\* another look at the timestamps, and the request is sent
WakeLimited(c) ==
  /\ getters[c].pc = "limited"
  /\ getters[c].wakeAt = hsNow
  /\ Becomes(Sends(Client, c, hsNow, fetchRun.responseMs))
  /\ UNCHANGED <<hsNow, fetchRun, tooMany, programVars, voteVars, severityVars,
                 emergingVars, priorityVars, rawVars,
                 planVars>>

\* the API answers getter c with 429: apiGet awaits its back-off timer
TooManyRequests(c) ==
  /\ getters[c].pc = "inFlight"
  /\ getters[c].wakeAt = hsNow
  /\ tooMany > 0
  /\ tooMany' = tooMany - 1
  /\ getters' = [getters EXCEPT ![c] =
                   [@ EXCEPT !.pc = "backoff", !.wakeAt = hsNow + BACKOFF_MS]]
  /\ UNCHANGED <<hsNow, requestTimestamps, httpLog, fetchRun, programVars,
                 voteVars, severityVars, emergingVars, priorityVars, rawVars,
                 planVars>>

\* the back-off timer fires: return this.apiGet(path, params)
Retries(c) ==
  /\ getters[c].pc = "backoff"
  /\ getters[c].wakeAt = hsNow
  /\ Becomes(Enters(Client, c, hsNow, fetchRun.responseMs))
  /\ UNCHANGED <<hsNow, fetchRun, tooMany, programVars, voteVars, severityVars,
                 emergingVars, priorityVars, rawVars,
                 planVars>>

\* the API answers getter c with the data: apiGet returns
Responds(c) ==
  /\ getters[c].pc = "inFlight"
  /\ getters[c].wakeAt = hsNow
  /\ tooMany = 0
  /\ getters' = [getters EXCEPT ![c] = [@ EXCEPT !.pc = "done"]]
  /\ UNCHANGED <<hsNow, requestTimestamps, httpLog, fetchRun, tooMany,
                 programVars, voteVars, severityVars, emergingVars,
                 priorityVars, rawVars,
                 planVars>>

\* fetchConversations once all pages are in: it returns without the threads
\* unless includeThreads is set, and otherwise goes through the batches
AfterPages(run, total) ==
  IF ~run.includeThreads \/ total = 0
  THEN [run EXCEPT !.pc = "returned", !.collected = total]
  ELSE [run EXCEPT !.pc = "threads", !.collected = total, !.next = 0]

\* a page arrives: fetchConversations awaits PAGE_DELAY_MS before the next
\* page; after the last page it returns or starts the first batch
PageArrives ==
  /\ fetchRun.pc = "page"
  /\ getters[1].pc = "done"
  /\ LET total == fetchRun.collected + fetchRun.pageLists[fetchRun.page]
         after == AfterPages(fetchRun, total)
     IN IF fetchRun.page < Len(fetchRun.pageLists)
        THEN /\ fetchRun' = [fetchRun EXCEPT !.pc = "pageDelay",
                                             !.collected = total,
                                             !.wakeAt = hsNow + PAGE_DELAY_MS]
             /\ Becomes(Fresh(Client))
        ELSE /\ fetchRun' = after
             /\ Becomes(IF after.pc = "threads"
                        THEN EnterAll(Fresh(Client), 1, BatchSize(total, 0),
                                      hsNow, fetchRun.responseMs)
                        ELSE Fresh(Client))
  /\ UNCHANGED <<hsNow, tooMany, programVars, voteVars, severityVars,
                 emergingVars, priorityVars, rawVars,
                 planVars>>

\* the page delay is over: the next page is asked for
NextPage ==
  /\ fetchRun.pc = "pageDelay"
  /\ fetchRun.wakeAt = hsNow
  /\ Becomes(Enters(Client, 1, hsNow, fetchRun.responseMs))
  /\ fetchRun' = [fetchRun EXCEPT !.pc = "page", !.page = @ + 1]
  /\ UNCHANGED <<hsNow, tooMany, programVars, voteVars, severityVars,
                 emergingVars, priorityVars, rawVars,
                 planVars>>

\* Promise.all of a batch resolves: the next batch starts, or
\* fetchConversations returns
BatchArrives ==
  /\ fetchRun.pc = "threads"
  /\ \A c \in 1..BatchSize(fetchRun.collected, fetchRun.next) :
       getters[c].pc = "done"
  /\ LET i == fetchRun.next + CONCURRENCY
     IN IF i < fetchRun.collected
        THEN /\ fetchRun' = [fetchRun EXCEPT !.next = i]
             /\ Becomes(EnterAll(Fresh(Client), 1, BatchSize(fetchRun.collected, i),
                                 hsNow, fetchRun.responseMs))
        ELSE /\ fetchRun' = [fetchRun EXCEPT !.pc = "returned"]
             /\ Becomes(Fresh(Client))
  /\ UNCHANGED <<hsNow, tooMany, programVars, voteVars, severityVars,
                 emergingVars, priorityVars, rawVars,
                 planVars>>

\* the timers and responses awaited
Awaited ==
  {getters[c].wakeAt :
     c \in {g \in DOMAIN getters : getters[g].pc \in {"limited", "inFlight", "backoff"}}}
    \cup (IF fetchRun.pc = "pageDelay" THEN {fetchRun.wakeAt} ELSE {})

\* nothing can run now: time moves on to the first timer or response
Passes ==
  /\ Awaited # {}
  /\ \A t \in Awaited : t > hsNow
  /\ ~(fetchRun.pc = "page" /\ getters[1].pc = "done")
  /\ hsNow' = CHOOSE t \in Awaited : \A u \in Awaited : t <= u
  /\ UNCHANGED <<requestTimestamps, httpLog, getters, fetchRun, tooMany,
                 programVars, voteVars, severityVars, emergingVars,
                 priorityVars, rawVars,
                 planVars>>

ClientNext ==
  \/ StartFetch
  \/ \E c \in 1..CONCURRENCY :
       \/ WakeLimited(c)
       \/ TooManyRequests(c)
       \/ Retries(c)
       \/ Responds(c)
  \/ PageArrives
  \/ NextPage
  \/ BatchArrives
  \/ Passes

\* ------------------------------------------------------------------------
\* Properties of the client
\* ------------------------------------------------------------------------

\* C24: one call of apiGet sends at most two requests, however often the
\* API answers 429
C24_AtMostTwoRequests ==
  \A c \in DOMAIN getters : getters[c].requests <= 2

\* the requests sent in the RATE_LIMIT_WINDOW_MS that end with the last one
LastWindow ==
  {j \in DOMAIN httpLog :
     httpLog[Len(httpLog)] - httpLog[j] < RATE_LIMIT_WINDOW_MS}

\* C26: no window of 60 seconds holds more than 170 requests of the client
\* (checked for the window that ends with each request as it is sent)
C26_WithinRateLimit ==
  Cardinality(LastWindow) <= MAX_REQUESTS_PER_WINDOW

\* ------------------------------------------------------------------------
\* index.ts: formatting of the fetched records
\*
\* A Conversation is a record with the fields id, subject, preview,
\* primaryCustomer, tags, threads and createdAt; a FeatureRequest one with
\* id, title, description, created_at, comments, portal and, when the portal
\* sent them, votes_count and comments_count.
\* ------------------------------------------------------------------------

\* null, which no text equals
Null == <<"null">>

\* v ?? d
Coalesce(v, d) == IF v = Null THEN d ELSE v

\* Boolean(v) of a text or null
Truthy(v) == v # Null /\ v # <<>>

\* scrubPii(text), as computed for every text the APIs can answer with
Scrubbed(text) == scrubResults[text]

scrubPiiArray(texts) ==
  [texts |-> [i \in DOMAIN texts |-> Scrubbed(texts[i]).text],
   piiCategoriesFound |->
     UNION {Scrubbed(texts[i]).piiCategoriesFound : i \in DOMAIN texts}]

\* formatConversation if it kept the preview as it was fetched
formatConversation_RawPreview(conv) ==
  LET rawMessages == IF Truthy(conv.preview) THEN <<conv.preview>> ELSE <<>>
      messages == scrubPiiArray(rawMessages)
      subjectScrub == Scrubbed(Coalesce(conv.subject, <<>>))
  IN [value |->
        [id |-> conv.id,
         subject |-> subjectScrub.text,
         createdAt |-> conv.createdAt,
         customerEmail |-> Chars_REDACTED,
         tags |-> [i \in DOMAIN conv.tags |-> conv.tags[i].tag],
         preview |-> Coalesce(conv.preview, <<>>),
         customerMessages |-> messages.texts,
         threadCount |-> Len(conv.threads)],
      categories |-> messages.piiCategoriesFound
                       \cup subjectScrub.piiCategoriesFound]

\* formatConversation if it copied the address of the customer
formatConversation_KeepEmail(conv) ==
  LET rawMessages == IF Truthy(conv.preview) THEN <<conv.preview>> ELSE <<>>
      messages == scrubPiiArray(rawMessages)
      subjectScrub == Scrubbed(Coalesce(conv.subject, <<>>))
      previewScrub == Scrubbed(Coalesce(conv.preview, <<>>))
  IN [value |->
        [id |-> conv.id,
         subject |-> subjectScrub.text,
         createdAt |-> conv.createdAt,
         customerEmail |-> conv.primaryCustomer.email,
         tags |-> [i \in DOMAIN conv.tags |-> conv.tags[i].tag],
         preview |-> previewScrub.text,
         customerMessages |-> messages.texts,
         threadCount |-> Len(conv.threads)],
      categories |-> messages.piiCategoriesFound
                       \cup subjectScrub.piiCategoriesFound
                       \cup previewScrub.piiCategoriesFound]

\* formatConversation: the formatted conversation (value) and the categories
\* it adds to piiCategoriesLog.  fetchConversations is called without
\* includeThreads, so conv.threads is empty and rawMessages is the preview.
formatConversation(conv) ==
  LET rawMessages == IF Truthy(conv.preview) THEN <<conv.preview>> ELSE <<>>
      messages == scrubPiiArray(rawMessages)
      subjectScrub == Scrubbed(Coalesce(conv.subject, <<>>))
      previewScrub == Scrubbed(Coalesce(conv.preview, <<>>))
  IN [value |->
        [id |-> conv.id,
         subject |-> subjectScrub.text,
         createdAt |-> conv.createdAt,
         customerEmail |-> Chars_REDACTED,
         tags |-> [i \in DOMAIN conv.tags |-> conv.tags[i].tag],
         preview |-> previewScrub.text,
         customerMessages |-> messages.texts,
         threadCount |-> Len(conv.threads)],
      categories |-> messages.piiCategoriesFound
                       \cup subjectScrub.piiCategoriesFound
                       \cup previewScrub.piiCategoriesFound]

\* req.field ?? 0
NumberOrZero(req, field) == IF field \in DOMAIN req THEN req[field] ELSE 0

\* formatFeatureRequest: the formatted request (value) and the categories it
\* adds to piiCategoriesLog
formatFeatureRequest(req) ==
  LET titleScrub == Scrubbed(req.title)
      descScrub == Scrubbed(req.description)
      commentScrub(i) == Scrubbed(req.comments[i].comment)
  IN [value |->
        [id |-> req.id,
         title |-> titleScrub.text,
         description |-> descScrub.text,
         votes_count |-> NumberOrZero(req, "votes_count"),
         comments_count |-> NumberOrZero(req, "comments_count"),
         portal |-> req.portal,
         created_at |-> req.created_at,
         comments |-> [i \in DOMAIN req.comments |->
                         [author |-> req.comments[i].author.name,
                          role |-> req.comments[i].author.role,
                          comment |-> commentScrub(i).text,
                          created_at |-> req.comments[i].created_at]]],
      categories |-> titleScrub.piiCategoriesFound
                       \cup descScrub.piiCategoriesFound
                       \cup UNION {commentScrub(i).piiCategoriesFound :
                                     i \in DOMAIN req.comments}]

\* xs.map(format): the formatted records and all the categories added
FormatAll(formatted) ==
  [values |-> [i \in DOMAIN formatted |-> formatted[i].value],
   categories |-> UNION {formatted[i].categories : i \in DOMAIN formatted}]

\* ------------------------------------------------------------------------
\* index.ts: overlapping tool calls
\*
\* Call r is the r-th tool call the server receives; it runs fetchAndAnalyze
\* or the handler of get_feature_requests.  A step of a call is the code it
\* runs between two awaits.  One portal is configured.  The Set objects are
\* named by the call that created them, 0 naming the Set the module starts
\* with.
\* ------------------------------------------------------------------------

MaxCalls == 2

Calls == 1..MaxCalls

Pending == [status |-> "pending"]

Fulfilled(value) == [status |-> "fulfilled", value |-> value]

Rejected == [status |-> "rejected", reason |-> "error"]

IdleCall ==
  [pc |-> "idle", tool |-> "none", prevLog |-> 0,
   hsResult |-> Pending, plResult |-> Pending,
   hsReceived |-> <<>>, plReceived |-> <<>>, result |-> NoResult]

RawConversation(id, subject, preview, email, tags) ==
  [id |-> id, subject |-> subject, preview |-> preview,
   primaryCustomer |-> [email |-> email], tags |-> tags, threads |-> <<>>,
   createdAt |-> 10]

\* what the Help Scout API answers: the conversations of the time frame,
\* of customers whose address the email pattern matches or does not match
HsResponses ==
  { <<RawConversation("1", <<"x">>, <<"a", "@", "b", ".", "c", "o">>, <<"c", "@", "d", ".", "i", "o">>, <<[id |-> 7, tag |-> <<"b", "u", "g">>]>>)>>,
    <<RawConversation("2", <<"5", "5", "5", "1", "2", "3", "4", "5", "6", "7">>, Null, <<"c", "@", "d", ".", "i", "o">>, <<>>),
      RawConversation("3", Null, <<"c", "@", "d">>, <<"c", "@", "d">>, <<>>)>> }

\* what the ProductLift API answers: the posts of the portal, after
\* fetchProductLift has selected the recent and the most voted ones
PlResponses ==
  { <<[id |-> "p1", title |-> <<"x">>, description |-> <<"5", "5", "5", "1", "2", "3", "4", "5", "6", "7">>,
       votes_count |-> 3, comments_count |-> 1, created_at |-> 5]>> }

\* what fetchFeatureRequests returns: the posts with their comments
FeatureResponses ==
  { <<[id |-> "p2", title |-> <<"x">>, description |-> <<>>, created_at |-> 5,
       comments |-> <<[author |-> [name |-> "ann", role |-> "member"],
                       comment |-> <<"a", "@", "b", ".", "c", "o">>, created_at |-> 6]>>,
       portal |-> "main"]>> }

\* loadThemesConfig: the configuration file of the deployment
DeployedConfig ==
  ConfigSample(<<ThemeSample("x", <<<<"x">>>>),
                 ThemeSample("contact", <<<<"r", "e", "d", "a", "c", "t", "e", "d">>>>)>>)

\* the FeatureRequest fetchProductLift builds from a post: no comments, and
\* params.portal_name ?? "all" as its portal
PostRequest(post) ==
  [id |-> post.id, title |-> post.title, description |-> post.description,
   votes_count |-> post.votes_count, comments_count |-> post.comments_count,
   created_at |-> post.created_at, comments |-> <<>>, portal |-> "all"]

\* the free text of a fetched record
ConversationTexts(conv) ==
  {Coalesce(conv.subject, <<>>), Coalesce(conv.preview, <<>>)}

RequestTexts(req) ==
  {req.title, req.description}
    \cup {req.comments[i].comment : i \in DOMAIN req.comments}

\* every free text the APIs can answer with
AllTexts ==
  UNION {UNION {ConversationTexts(convs[i]) : i \in DOMAIN convs} :
           convs \in HsResponses}
    \cup UNION {UNION {RequestTexts(reqs[i]) : i \in DOMAIN reqs} :
                  reqs \in FeatureResponses}
    \cup UNION {UNION {RequestTexts(PostRequest(posts[i])) : i \in DOMAIN posts} :
                  posts \in PlResponses}

\* convs.map(formatConversation)
FormatConversations(convs) ==
  FormatAll([i \in DOMAIN convs |-> formatConversation(convs[i])])

\* the formatted array fetchProductLift builds from the posts of the portal
FormatPosts(posts) ==
  FormatAll([i \in DOMAIN posts |-> formatFeatureRequest(PostRequest(posts[i]))])

\* allRequests.map(formatFeatureRequest)
FormatFeatures(requests) ==
  FormatAll([i \in DOMAIN requests |-> formatFeatureRequest(requests[i])])

ServerInit ==
  /\ piiCategoriesLog = 0
  /\ piiSets = [ref \in 0..MaxCalls |-> {}]
  /\ calls = [r \in Calls |-> IdleCall]
  /\ scrubResults = [t \in AllTexts |-> scrubPii(t)]
  /\ scrubIn = <<>>
  /\ scrubOut = NoResult
  /\ scrubOut2 = NoResult
  /\ matchText = <<>>
  /\ matchKeywords = <<>>
  /\ matchResult = NoResult
  /\ conversations = <<>>
  /\ featureRequests = <<>>
  /\ config = NoResult
  /\ analysis = NoResult
  /\ frequencyCounts = <<>>
  /\ frequencyScores = NoResult
  /\ votePoints = <<>>
  /\ voteScores = NoResult
  /\ severityPoints = <<>>
  /\ clock = FirstDay
  /\ severityScores = <<>>
  /\ emergingPoints = <<>>
  /\ emergingMin = 0
  /\ emergingThemes = NoResult
  /\ priorityArgs = NoResult
  /\ priorityTheme = NoResult
  /\ rawThemes = NoResult
  /\ rawTexts = <<>>
  /\ rawOutcome = NoResult
  /\ hsNow = 0
  /\ requestTimestamps = <<>>
  /\ httpLog = <<>>
  /\ getters = <<>>
  /\ fetchRun = NoResult
  /\ tooMany = 0
  /\ fetchCache = <<>>
  /\ cacheNow = 0
  /\ planCalls = <<>>
  /\ fetchLog = <<>>

otherVars == <<scrubVars, matchVars, analyzeVars, scoreVars, scrubResults,
               componentVars>>

\* call r arrives after the calls before it
Arrives(r) ==
  /\ calls[r].pc = "idle"
  /\ \A q \in Calls : q < r => calls[q].pc # "idle"

Awaiting(r, tool) == calls[r].pc = "awaiting" /\ calls[r].tool = tool

\* fetchAndAnalyze up to its await: piiCategoriesLog is made to refer to a
\* new Set and both fetches are started
StartAnalysis(r) ==
  /\ Arrives(r)
  /\ calls' = [calls EXCEPT ![r] = [@ EXCEPT !.pc = "awaiting",
                                             !.tool = "fetchAndAnalyze",
                                             !.prevLog = piiCategoriesLog]]
  /\ piiSets' = [piiSets EXCEPT ![r] = {}]
  /\ piiCategoriesLog' = r
  /\ UNCHANGED otherVars

\* fetchConversations resolves and its conversations are formatted
ConversationsArrive(r, convs) ==
  /\ Awaiting(r, "fetchAndAnalyze")
  /\ calls[r].hsResult = Pending
  /\ LET formatted == FormatConversations(convs)
     IN /\ calls' = [calls EXCEPT ![r] =
                       [@ EXCEPT !.hsResult = Fulfilled(formatted.values),
                                 !.hsReceived = convs]]
        /\ piiSets' = [piiSets EXCEPT ![piiCategoriesLog] = @ \cup formatted.categories]
  /\ UNCHANGED <<piiCategoriesLog, otherVars>>

\* fetchConversations rejects
ConversationsFail(r) ==
  /\ Awaiting(r, "fetchAndAnalyze")
  /\ calls[r].hsResult = Pending
  /\ calls' = [calls EXCEPT ![r] = [@ EXCEPT !.hsResult = Rejected]]
  /\ UNCHANGED <<piiCategoriesLog, piiSets, otherVars>>

\* fetchPosts resolves inside fetchProductLift and the posts are formatted,
\* without comments and under the portal name "all"
PostsArrive(r, posts) ==
  /\ Awaiting(r, "fetchAndAnalyze")
  /\ calls[r].plResult = Pending
  /\ LET formatted == FormatPosts(posts)
     IN /\ calls' = [calls EXCEPT ![r] =
                       [@ EXCEPT !.plResult = Fulfilled(formatted.values),
                                 !.plReceived = [i \in DOMAIN posts |-> PostRequest(posts[i])]]]
        /\ piiSets' = [piiSets EXCEPT ![piiCategoriesLog] = @ \cup formatted.categories]
  /\ UNCHANGED <<piiCategoriesLog, otherVars>>

\* fetchProductLift rejects
PostsFail(r) ==
  /\ Awaiting(r, "fetchAndAnalyze")
  /\ calls[r].plResult = Pending
  /\ calls' = [calls EXCEPT ![r] = [@ EXCEPT !.plResult = Rejected]]
  /\ UNCHANGED <<piiCategoriesLog, piiSets, otherVars>>

\* fetchAndAnalyze after its await if the fetches were awaited with
\* Promise.all: the failure of one fetch is the failure of the call
FinishAnalysis_AllOrNothing(r) ==
  /\ Awaiting(r, "fetchAndAnalyze")
  /\ calls[r].hsResult # Pending
  /\ calls[r].plResult # Pending
  /\ LET hsResult == calls[r].hsResult
         plResult == calls[r].plResult
     IN calls' = [calls EXCEPT ![r] =
                    [@ EXCEPT !.pc = "done",
                              !.result =
                                IF hsResult.status = "fulfilled"
                                     /\ plResult.status = "fulfilled"
                                THEN [conversations |-> hsResult.value,
                                      featureRequests |-> plResult.value,
                                      analysis |-> analyzeFeedback(hsResult.value,
                                                     plResult.value, DeployedConfig, clock),
                                      piiCategoriesRedacted |-> piiSets[r],
                                      dataSources |-> <<>>,
                                      warnings |-> <<>>]
                                ELSE [isError |-> TRUE]]]
  /\ piiCategoriesLog' = calls[r].prevLog
  /\ UNCHANGED <<piiSets, otherVars>>

\* fetchAndAnalyze after Promise.allSettled: piiCategoriesLog is restored,
\* the feedback is analysed and the Set of the call is reported
FinishAnalysis(r) ==
  /\ Awaiting(r, "fetchAndAnalyze")
  /\ calls[r].hsResult # Pending
  /\ calls[r].plResult # Pending
  /\ LET hsResult == calls[r].hsResult
         plResult == calls[r].plResult
         convs == IF hsResult.status = "fulfilled" THEN hsResult.value ELSE <<>>
         reqs == IF plResult.status = "fulfilled" THEN plResult.value ELSE <<>>
         warnings ==
           (IF hsResult.status = "fulfilled" THEN <<>>
            ELSE <<"HelpScout fetch failed">>)
           \o (IF plResult.status = "fulfilled" THEN <<>>
               ELSE <<"ProductLift fetch failed">>)
         dataSources ==
           (IF Len(convs) > 0 THEN <<"helpscout_tickets">> ELSE <<>>)
           \o (IF Len(reqs) > 0 THEN <<"productlift_votes">> ELSE <<>>)
     IN calls' = [calls EXCEPT ![r] =
                    [@ EXCEPT !.pc = "done",
                              !.result =
                                [conversations |-> convs,
                                 featureRequests |-> reqs,
                                 analysis |-> analyzeFeedback(convs, reqs, DeployedConfig, clock),
                                 piiCategoriesRedacted |-> piiSets[r],
                                 dataSources |-> dataSources,
                                 warnings |-> warnings]]]
  /\ piiCategoriesLog' = calls[r].prevLog
  /\ UNCHANGED <<piiSets, otherVars>>

\* the handler of get_feature_requests up to its await
StartFeatures(r) ==
  /\ Arrives(r)
  /\ calls' = [calls EXCEPT ![r] = [@ EXCEPT !.pc = "awaiting",
                                             !.tool = "get_feature_requests"]]
  /\ UNCHANGED <<piiCategoriesLog, piiSets, otherVars>>

\* fetchFeatureRequests resolves; the requests are formatted and returned
FeaturesArrive(r, requests) ==
  /\ Awaiting(r, "get_feature_requests")
  /\ LET formatted == FormatFeatures(requests)
     IN /\ calls' = [calls EXCEPT ![r] =
                       [@ EXCEPT !.pc = "done",
                                 !.plReceived = requests,
                                 !.result =
                                   [portal_filter |-> "all",
                                    total_feature_requests |-> Len(requests),
                                    feature_requests |-> formatted.values]]]
        /\ piiSets' = [piiSets EXCEPT ![piiCategoriesLog] = @ \cup formatted.categories]
  /\ UNCHANGED <<piiCategoriesLog, otherVars>>

\* fetchFeatureRequests rejects and the handler returns the error
FeaturesFail(r) ==
  /\ Awaiting(r, "get_feature_requests")
  /\ calls' = [calls EXCEPT ![r] = [@ EXCEPT !.pc = "done",
                                             !.result = [isError |-> TRUE]]]
  /\ UNCHANGED <<piiCategoriesLog, piiSets, otherVars>>

ServerNext ==
  \E r \in Calls :
    \/ StartAnalysis(r)
    \/ \E convs \in HsResponses : ConversationsArrive(r, convs)
    \/ ConversationsFail(r)
    \/ \E posts \in PlResponses : PostsArrive(r, posts)
    \/ PostsFail(r)
    \/ FinishAnalysis(r)
    \/ StartFeatures(r)
    \/ \E requests \in FeatureResponses : FeaturesArrive(r, requests)
    \/ FeaturesFail(r)

\* ------------------------------------------------------------------------
\* Properties of the tool calls
\* ------------------------------------------------------------------------

\* scrubPii of each of them
ScrubOf == [t \in AllTexts |-> scrubPii(t)]

ScrubOutputs == {ScrubOf[t].text : t \in AllTexts}

\* the free text of the records call r has received
ReceivedTexts(r) ==
  UNION {ConversationTexts(calls[r].hsReceived[i]) : i \in DOMAIN calls[r].hsReceived}
    \cup UNION {RequestTexts(calls[r].plReceived[i]) : i \in DOMAIN calls[r].plReceived}

\* the categories redacted from the records call r has received
OwnCategories(r) ==
  UNION {ScrubOf[t].piiCategoriesFound : t \in ReceivedTexts(r)}

\* the calls of fetchAndAnalyze that have returned
Analysed == {r \in Calls : calls[r].pc = "done" /\ calls[r].tool = "fetchAndAnalyze"}

\* the titles of the data points listed in an analysis
ListedTitles(result) ==
  UNION {{result.themes[i].data_points[k].title :
            k \in DOMAIN result.themes[i].data_points} :
           i \in DOMAIN result.themes}
    \cup UNION {{result.emerging_themes[i].data_points[k].title :
                    k \in DOMAIN result.emerging_themes[i].data_points} :
                   i \in DOMAIN result.emerging_themes}

\* every text in what a call of fetchAndAnalyze returns
OutputTexts(d) ==
  UNION {{d.conversations[i].subject, d.conversations[i].preview,
          d.conversations[i].customerEmail}
           \cup Range(d.conversations[i].customerMessages) :
           i \in DOMAIN d.conversations}
    \cup UNION {{d.featureRequests[i].title, d.featureRequests[i].description}
                  \cup {d.featureRequests[i].comments[k].comment :
                          k \in DOMAIN d.featureRequests[i].comments} :
                  i \in DOMAIN d.featureRequests}
    \cup ListedTitles(d.analysis)

\* C2: the PII categories a call of fetchAndAnalyze reports are exactly the
\* categories redacted from the records that call received, whatever other
\* calls overlap with it
C2_OwnCategoriesReported ==
  \A r \in Analysed :
    calls[r].result.piiCategoriesRedacted = OwnCategories(r)

\* C3: every free-text field given to analyzeFeedback is what scrubPii
\* returned for the fetched field, and every title listed in the analysis is
\* an output of scrubPii
C3_OnlyScrubbedText ==
  \A r \in Analysed :
    LET d == calls[r].result
        hs == calls[r].hsReceived
        pl == calls[r].plReceived
    IN /\ Len(d.conversations) = Len(hs)
       /\ \A i \in DOMAIN hs :
            /\ d.conversations[i].subject = ScrubOf[Coalesce(hs[i].subject, <<>>)].text
            /\ d.conversations[i].preview = ScrubOf[Coalesce(hs[i].preview, <<>>)].text
            /\ Range(d.conversations[i].customerMessages) \subseteq ScrubOutputs
            /\ Truthy(hs[i].preview) =>
                 d.conversations[i].customerMessages = <<ScrubOf[hs[i].preview].text>>
       /\ Len(d.featureRequests) = Len(pl)
       /\ \A i \in DOMAIN pl :
            /\ d.featureRequests[i].title = ScrubOf[pl[i].title].text
            /\ d.featureRequests[i].description = ScrubOf[pl[i].description].text
            /\ \A k \in DOMAIN pl[i].comments :
                 d.featureRequests[i].comments[k].comment
                   = ScrubOf[pl[i].comments[k].comment].text
       /\ ListedTitles(d.analysis) \subseteq ScrubOutputs

\* a fetched preview with an address was analysed as the placeholder
C3_Witness ==
  \E r \in Analysed :
    \E i \in DOMAIN calls[r].hsReceived :
      /\ calls[r].hsReceived[i].preview = <<"a", "@", "b", ".", "c", "o">>
      /\ calls[r].result.conversations[i].preview = Chars_EMAIL
      /\ calls[r].result.conversations[i].subject
           \in ListedTitles(calls[r].result.analysis)

ConversationFields(r, i) ==
  <<calls[r].result.conversations[i].subject,
    calls[r].result.conversations[i].preview>>

\* the free-text fields of a formatted feature request
RequestFields(req) ==
  <<req.title, req.description>>
    \o [k \in DOMAIN req.comments |-> req.comments[k].comment]

\* text is lower-case and made of the fields, each once, and the single
\* spaces between them
HoldsEachOnce(text, fields) ==
  /\ text = toLowerCase(text)
  /\ \A k \in DOMAIN fields : Includes(text, toLowerCase(fields[k]))
  /\ Len(text) = Sum([k \in DOMAIN fields |-> Len(fields[k])]) + Len(fields) - 1

\* C20: the text of the data point built from a record is lower-case and
\* contains each free-text field of the record exactly once, also for a
\* conversation whose thread list is empty
C20_EachFieldOnce ==
  \A r \in Analysed :
    /\ \A i \in DOMAIN calls[r].result.conversations :
         HoldsEachOnce(
           conversationToDataPoint(calls[r].result.conversations[i]).text,
           ConversationFields(r, i))
    /\ \A i \in DOMAIN calls[r].result.featureRequests :
         HoldsEachOnce(
           featureRequestToDataPoint(calls[r].result.featureRequests[i]).text,
           RequestFields(calls[r].result.featureRequests[i]))

\* what fetchAndAnalyze returns when the fetch of one source was rejected and
\* the other fulfilled with the records kept: no error, the records kept as
\* they were fetched, an analysis of exactly these records, and the one
\* warning given
SurvivesWith(result, convs, reqs, warning) ==
  /\ "isError" \notin DOMAIN result
  /\ result.conversations = convs
  /\ result.featureRequests = reqs
  /\ result.analysis.total_data_points = Len(convs) + Len(reqs)
  /\ result.analysis.reactive_count = Len(convs)
  /\ result.analysis.proactive_count = Len(reqs)
  /\ \A i \in DOMAIN result.analysis.themes :
       \A k \in DOMAIN result.analysis.themes[i].data_points :
         result.analysis.themes[i].data_points[k].id \in
           {conversationToDataPoint(convs[j]).id : j \in DOMAIN convs}
             \cup {featureRequestToDataPoint(reqs[j]).id : j \in DOMAIN reqs}
  /\ result.warnings = <<warning>>

CACHE_TTL_MS == 300000

MaxPlanCalls == 2

MaxSteps == 3

\* time passes in halves of the time to live
StepMs == CACHE_TTL_MS \div 2

PlanCalls == 1..MaxPlanCalls

\* the parameters of a call: mailbox_id and portal_name are optional, and a
\* portal name may be the empty string
Params(timeframe_days, mailbox_id, portal_name) ==
  [timeframe_days |-> timeframe_days, top_voted_limit |-> 50,
   mailbox_id |-> mailbox_id, portal_name |-> portal_name]

ParamSamples ==
  {Params(30, Null, Null), Params(30, Null, <<>>), Params(7, <<"9">>, Null)}

\* String(n) of a natural number
RECURSIVE NumberText(_)
NumberText(n) ==
  IF n < 10 THEN <<Digits[n + 1]>>
  ELSE NumberText(n \div 10) \o <<Digits[(n % 10) + 1]>>

\* cacheKey(params)
cacheKey(params) ==
  NumberText(params.timeframe_days) \o <<"|">>
    \o Coalesce(params.mailbox_id, <<>>) \o <<"|">>
    \o Coalesce(params.portal_name, <<>>) \o <<"|">>
    \o NumberText(params.top_voted_limit)

\* what fetchAndAnalyze(params) returns when invoked at time at: the
\* conversations of the mailbox (of all mailboxes when mailboxId is not
\* truthy), the requests of the portals (filterClientsByPortal: all of them
\* when portalName is not truthy; the one portal configured is not named "")
\* labelled params.portal_name ?? "all"
FetchedData(r, params, at) ==
  [call |-> r,
   timeframe_days |-> params.timeframe_days,
   mailbox |-> IF Truthy(params.mailbox_id) THEN params.mailbox_id ELSE Null,
   portal |-> Coalesce(params.portal_name, <<"a", "l", "l">>),
   top_voted_limit |-> params.top_voted_limit,
   fetchedAt |-> at]

\* if (preview_only) if the preview were never taken
ReturnsPreview_Never(preview_only) == FALSE

\* if (preview_only)
ReturnsPreview(preview_only) == preview_only

\* Date.now() - cached.timestamp < CACHE_TTL_MS if an entry of exactly the
\* time to live still counted
IsFresh_Inclusive(timestamp, now) == now - timestamp <= CACHE_TTL_MS

\* Date.now() - cached.timestamp < CACHE_TTL_MS
IsFresh(timestamp, now) == now - timestamp < CACHE_TTL_MS

\* fetchCache.get(key): an entry, or none
CacheGet(cache, key) == IF key \in DOMAIN cache THEN cache[key] ELSE NoResult

\* fetchCache.set(key, entry)
CacheSet(cache, key, entry) ==
  [k \in DOMAIN cache \cup {key} |-> IF k = key THEN entry ELSE cache[k]]

\* the loop that deletes every entry with Date.now() - entry.timestamp >=
\* CACHE_TTL_MS
Evicted(cache, now) ==
  [k \in {j \in DOMAIN cache : ~(now - cache[j].timestamp >= CACHE_TTL_MS)}
     |-> cache[k]]

IdlePlanCall ==
  [pc |-> "idle", params |-> NoResult, preview_only |-> FALSE,
   arrivedAt |-> 0, found |-> NoResult, prevLog |-> 0, servedBy |-> "none",
   data |-> NoResult]

PlanInit ==
  /\ fetchCache = <<>>
  /\ cacheNow = 0
  /\ planCalls = [r \in PlanCalls |-> IdlePlanCall]
  /\ fetchLog = <<>>
  /\ piiCategoriesLog = 0
  /\ hsNow = 0
  /\ requestTimestamps = <<>>
  /\ httpLog = <<>>
  /\ getters = <<>>
  /\ fetchRun = NoResult
  /\ tooMany = 0
  /\ rawThemes = NoResult
  /\ rawTexts = <<>>
  /\ rawOutcome = NoResult
  /\ priorityArgs = NoResult
  /\ priorityTheme = NoResult
  /\ clock = 0
  /\ severityPoints = <<>>
  /\ severityScores = <<>>
  /\ votePoints = <<>>
  /\ voteScores = NoResult
  /\ scrubIn = <<>>
  /\ scrubOut = NoResult
  /\ scrubOut2 = NoResult
  /\ matchText = <<>>
  /\ matchKeywords = <<>>
  /\ matchResult = NoResult
  /\ conversations = <<>>
  /\ featureRequests = <<>>
  /\ config = NoResult
  /\ analysis = NoResult
  /\ frequencyCounts = <<>>
  /\ frequencyScores = NoResult
  /\ piiSets = <<>>
  /\ calls = <<>>
  /\ scrubResults = <<>>
  /\ emergingPoints = <<>>
  /\ emergingMin = 0
  /\ emergingThemes = NoResult

\* what the steps below leave alone
planFrame ==
  <<scrubVars, matchVars, analyzeVars, scoreVars, piiSets, calls, scrubResults,
    voteVars, severityVars, emergingVars, priorityVars, rawVars, clientVars>>

\* call r arrives after the calls before it
PlanArrives(r) ==
  /\ planCalls[r].pc = "idle"
  /\ \A q \in PlanCalls : q < r => planCalls[q].pc # "idle"

Arrived(r, params, preview_only) ==
  [planCalls[r] EXCEPT !.params = params,
                       !.preview_only = preview_only, !.arrivedAt = cacheNow,
                       !.found = CacheGet(fetchCache, cacheKey(params))]

\* the cache has an entry for the call that may be served
Hit(params) ==
  /\ CacheGet(fetchCache, cacheKey(params)) # NoResult
  /\ IsFresh(CacheGet(fetchCache, cacheKey(params)).timestamp, cacheNow)

\* generate_product_plan with preview_only: the manifest is returned
Previews(r, params) ==
  /\ PlanArrives(r)
  /\ ReturnsPreview(TRUE)
  /\ planCalls' = [planCalls EXCEPT ![r] =
                     [Arrived(r, params, TRUE)
                        EXCEPT !.pc = "done", !.servedBy = "preview",
                               !.data = [preview |-> TRUE]]]
  /\ UNCHANGED <<fetchCache, cacheNow, fetchLog, piiCategoriesLog, planFrame>>

\* the calls that reach cachedFetchAndAnalyze: those of synthesize_feedback,
\* which has no preview, and those of generate_product_plan that do not
\* return the preview
Proceeds(tool, preview_only) ==
  \/ tool = "synthesize_feedback" /\ ~preview_only
  \/ tool = "generate_product_plan" /\ ~ReturnsPreview(preview_only)

\* cachedFetchAndAnalyze finds an entry younger than CACHE_TTL_MS and
\* returns its data
ServesCached(r, tool, params, preview_only) ==
  /\ PlanArrives(r)
  /\ Proceeds(tool, preview_only)
  /\ Hit(params)
  /\ planCalls' = [planCalls EXCEPT ![r] =
                     [Arrived(r, params, preview_only)
                        EXCEPT !.pc = "done", !.servedBy = "cache",
                               !.data = fetchCache[cacheKey(params)].data]]
  /\ UNCHANGED <<fetchCache, cacheNow, fetchLog, piiCategoriesLog, planFrame>>

\* cachedFetchAndAnalyze finds no such entry: fetchAndAnalyze runs up to its
\* await, with piiCategoriesLog made to refer to the Set of the call
Fetches(r, tool, params, preview_only) ==
  /\ PlanArrives(r)
  /\ Proceeds(tool, preview_only)
  /\ ~Hit(params)
  /\ planCalls' = [planCalls EXCEPT ![r] =
                     [Arrived(r, params, preview_only)
                        EXCEPT !.pc = "fetching", !.prevLog = piiCategoriesLog]]
  /\ piiCategoriesLog' = r
  /\ fetchLog' = Append(fetchLog, [call |-> r, at |-> cacheNow])
  /\ UNCHANGED <<fetchCache, cacheNow, planFrame>>

\* fetchAndAnalyze returns: the data are stored with the time of the
\* storing, the entries as old as CACHE_TTL_MS are deleted
FetchReturns(r) ==
  /\ planCalls[r].pc = "fetching"
  /\ LET data == FetchedData(r, planCalls[r].params, planCalls[r].arrivedAt)
         entry == [data |-> data, timestamp |-> cacheNow]
     IN /\ fetchCache' =
             Evicted(CacheSet(fetchCache, cacheKey(planCalls[r].params), entry),
                     cacheNow)
        /\ planCalls' = [planCalls EXCEPT ![r] =
                           [@ EXCEPT !.pc = "done", !.servedBy = "fetch",
                                     !.data = data]]
  /\ piiCategoriesLog' = planCalls[r].prevLog
  /\ UNCHANGED <<cacheNow, fetchLog, planFrame>>

TimePasses ==
  /\ cacheNow < MaxSteps * StepMs
  /\ cacheNow' = cacheNow + StepMs
  /\ UNCHANGED <<fetchCache, planCalls, fetchLog, piiCategoriesLog, planFrame>>

PlanNext ==
  \/ \E r \in PlanCalls, params \in ParamSamples :
       \/ Previews(r, params)
       \/ \E tool \in {"synthesize_feedback", "generate_product_plan"},
             preview_only \in BOOLEAN :
            \/ ServesCached(r, tool, params, preview_only)
            \/ Fetches(r, tool, params, preview_only)
  \/ \E r \in PlanCalls : FetchReturns(r)
  \/ TimePasses

\* ------------------------------------------------------------------------
\* Properties of the response cache and of the preview
\* ------------------------------------------------------------------------

\* the calls that went on to cachedFetchAndAnalyze
Proceeded == {r \in PlanCalls : planCalls[r].pc # "idle" /\ planCalls[r].servedBy # "preview"}

\* the calls served from the cache
ServedCached == {r \in PlanCalls : planCalls[r].servedBy = "cache"}

\* the calls that found an entry as old as CACHE_TTL_MS, or older
FoundStale ==
  {r \in Proceeded :
     /\ planCalls[r].found # NoResult
     /\ planCalls[r].arrivedAt - planCalls[r].found.timestamp >= CACHE_TTL_MS}

\* the entry served to call r was stored less than CACHE_TTL_MS before
ServedYoung(r) ==
  /\ planCalls[r].found # NoResult
  /\ planCalls[r].data = planCalls[r].found.data
  /\ planCalls[r].found.timestamp <= planCalls[r].arrivedAt
  /\ planCalls[r].arrivedAt - planCalls[r].found.timestamp < CACHE_TTL_MS

\* call r, which found a stale entry, fetches anew and, once returned, has
\* replaced the entry by what it fetched (which stays until it is as old as
\* CACHE_TTL_MS or another call replaces it)
Refetched(r) ==
  /\ planCalls[r].servedBy # "cache"
  /\ \E i \in DOMAIN fetchLog :
       fetchLog[i] = [call |-> r, at |-> planCalls[r].arrivedAt]
  /\ planCalls[r].pc = "done" =>
       /\ planCalls[r].data.call = r
       /\ planCalls[r].data.fetchedAt = planCalls[r].arrivedAt
       /\ CacheGet(fetchCache, cacheKey(planCalls[r].params)) # planCalls[r].found
       /\ \/ cacheNow - planCalls[r].arrivedAt >= CACHE_TTL_MS
          \/ /\ CacheGet(fetchCache, cacheKey(planCalls[r].params)) # NoResult
             /\ fetchCache[cacheKey(planCalls[r].params)].timestamp
                  >= planCalls[r].arrivedAt

\* C30 as stated: a result served from the cache was stored less than 5
\* minutes earlier by a call with the same timeframe_days, mailbox_id,
\* portal_name and top_voted_limit; a call that finds an entry 5 minutes old
\* or older fetches fresh data and replaces the entry
C30_SameParametersAndYoung ==
  /\ \A r \in ServedCached :
       /\ ServedYoung(r)
       /\ planCalls[planCalls[r].data.call].params = planCalls[r].params
  /\ \A r \in FoundStale : Refetched(r)

\* C30: a result served from the cache was stored less than 5 minutes
\* earlier by a call whose parameters give the same cacheKey string (a
\* missing mailbox_id or portal_name counting as the empty string); a call
\* that finds an entry 5 minutes old or older fetches fresh data and
\* replaces the entry
C30_SameKeyAndYoung ==
  /\ \A r \in ServedCached :
       /\ ServedYoung(r)
       /\ cacheKey(planCalls[planCalls[r].data.call].params)
            = cacheKey(planCalls[r].params)
  /\ \A r \in FoundStale : Refetched(r)

\* a call is served what another call stored half the time to live before
C30_Witness ==
  \E r \in ServedCached :
    /\ planCalls[r].data.call # r
    /\ planCalls[r].arrivedAt - planCalls[r].found.timestamp = StepMs

\* the arrival of a call of generate_product_plan with preview_only set
PreviewArrives(r) ==
  /\ planCalls[r].pc = "idle"
  /\ planCalls'[r].pc # "idle"
  /\ planCalls'[r].preview_only

\* C25: a call of generate_product_plan with preview_only returns the
\* manifest at once: fetchAndAnalyze is not invoked (no client is called,
\* nothing is analysed), and the response cache and piiCategoriesLog stay as
\* they are
C25_PreviewFetchesNothing ==
  [][\A r \in PlanCalls :
       PreviewArrives(r) =>
         /\ planCalls'[r].pc = "done"
         /\ planCalls'[r].data = [preview |-> TRUE]
         /\ UNCHANGED <<fetchCache, fetchLog, piiCategoriesLog>>]_vars

\* a preview has returned while the cache holds an entry and another call
\* is fetching, with piiCategoriesLog referring to the Set of that call
C25_Witness ==
  \E r, q \in PlanCalls :
    /\ planCalls[r].servedBy = "preview"
    /\ planCalls[q].pc = "fetching"
    /\ piiCategoriesLog = q
    /\ fetchLog # <<>>

\* ------------------------------------------------------------------------
\* Specifications
\* ------------------------------------------------------------------------

\* scrubPii over the texts of Texts
SpecScrub == ScrubInit /\ [][ScrubNext]_vars

\* matchesTheme over MatchTexts and KeywordLists
SpecMatch == MatchInit /\ [][MatchNext]_vars

\* analyzeFeedback over the sample conversations, requests and configurations
SpecAnalyze == AnalyzeInit /\ [][AnalyzeNext]_vars

\* the frequency normalisation over the counts of CountValues
SpecScore == ScoreInit /\ [][ScoreNext]_vars

\* the vote momentum normalisation over the points of VotePointSamples
SpecVotes == VoteInit /\ [][VoteNext]_vars

\* computeSeverityScore over the points of SeverityPointSamples, twice
SpecSeverity == SeverityInit /\ [][SeverityNext]_vars

\* detectEmergingThemes over the subjects of EmergingTexts
SpecEmerging == EmergingInit /\ [][EmergingNext]_vars

\* analyzeFeedback over records of several portals
SpecPortals == PortalsInit /\ [][AnalyzeNext]_vars

\* the priority score over the points of PriorityPointSamples
SpecPriority == PriorityInit /\ [][PriorityNext]_vars

\* analyzeFeedback over themes configurations of any shape
SpecRawConfig == RawInit /\ [][RawNext]_vars

\* fetchConversations against an API that holds PageLists
SpecClient == ClientInit /\ [][ClientNext]_vars

\* calls of synthesize_feedback and generate_product_plan over ParamSamples
SpecPlan == PlanInit /\ [][PlanNext]_vars

\* detectEmergingThemes over the subjects of OrderTexts
SpecEmergingOrder == OrderInit /\ [][EmergingNext]_vars

\* overlapping calls of fetchAndAnalyze and get_feature_requests
SpecServer == ServerInit /\ [][ServerNext]_vars

====
